---- MODULE Spec2Model ----
(***************************************************************************)
(* Garden E-Cutters: BLE log transfer between the shears (GATT server,     *)
(* shears-fw/main/log_transfer_server.c) and the base (GATT client,        *)
(* base-ble-fw/main/main.c, base-fw/main/base_ble.c), with the framed UART *)
(* uplink of the base (base-ble-fw/main/csv_debug_button.c).               *)
(*                                                                         *)
(* The shears run two tasks that share g_log_xfer without a lock: the      *)
(* NimBLE host task (control-write handler) and log_transfer_task (the     *)
(* emitter).  Each statement that touches shared state is one step, so     *)
(* every interleaving of the two tasks is a behaviour of the model.  The   *)
(* base runs everything inside its host task, one callback per step.       *)
(***************************************************************************)
EXTENDS Integers, Sequences, FiniteSets, TLC

(* ---- bounds of the model ---------------------------------------------- *)
InitLen     == 20   \* bytes in the CSV file at start (one full chunk + 2)
RowLen      == 16   \* bytes appended by one save (InitLen + RowLen = 2 chunks)
MaxConnects == 2    \* connections made during the run
MaxFiles    == 2    \* FILE slots of the C library that fopen() can hand out
MaxInFlight == 2    \* mbufs the stack has for notifications not yet received
MaxEvents   == 1    \* saves, aborts, extra requests, MTU exchanges and link
                    \* losses that the environment brings into one run
UftInitLen  == 4    \* bytes in the base's CSV file at start
CHUNK_SIZE  == 2    \* file bytes per DATA packet (255 in the firmware)
MaxTriggers == 2    \* transfer triggers in one run
MaxPending  == 4    \* packets a retransmission may find unanswered at the host

(* ---- program constants ------------------------------------------------ *)
CTRL_CMD_START_TRANSFER == 1
CTRL_CMD_ABORT          == 2
CTRL_EVT_STATUS         == 128
STATUS_OK               == 0
STATUS_ERR_NO_FILE      == 1
STATUS_ERR_FS           == 2
STATUS_ERR_BUSY         == 3
STATUS_TRANSFER_DONE    == 4
STATUS_TRANSFER_ABORTED == 5
MaxChunkPayload         == 160
MaxBasename             == 48
UART_FRAME_START        == 170
START_BYTE              == 170
TYPE_START              == 1
TYPE_DATA               == 2
TYPE_END                == 3
TYPE_ACK                == 4
TYPE_COMMIT             == 5
MAX_RETRIES             == 5
QueueDepth              == 4
UART_FRAME_MAX_PAYLOAD  == 200
UART_MSG_STATUS         == 2
UART_MSG_LOG_LINE       == 3
UART_STATUS_SHEAR_CONNECTED    == 1
UART_STATUS_SHEAR_DISCONNECTED == 2
UART_STATUS_TRANSFER_START     == 3
UART_STATUS_TRANSFER_DONE      == 4
UART_STATUS_TRANSFER_ERROR     == 5
BLE_ATT_MTU_DFLT        == 23
PreferredMtu            == 256
CtrlValHandle           == 12
DataValHandle           == 15
GPS_LOG_FILE_BASENAME   == "gps_points.csv"
MissingBasename         == "none.csv"
NULL                    == 0
ESP_OK                  == "ESP_OK"
ESP_FAIL                == "ESP_FAIL"
ESP_ERR_INVALID_SIZE    == "ESP_ERR_INVALID_SIZE"

RequestNames == {GPS_LOG_FILE_BASENAME, MissingBasename}
ConnHandles  == {0, 1}
ErrorStatuses == {STATUS_ERR_NO_FILE, STATUS_ERR_FS, STATUS_ERR_BUSY,
                  STATUS_TRANSFER_ABORTED}

(* ---- byte helpers ----------------------------------------------------- *)
\* Bit k of the XOR of all bytes of s: the parity of the bytes having bit k set.
XorBit(s, k) ==
    Cardinality({i \in 1..Len(s) : (s[i] \div (2 ^ k)) % 2 = 1}) % 2

XorAll(s) ==
    XorBit(s, 0) + 2 * XorBit(s, 1) + 4 * XorBit(s, 2) + 8 * XorBit(s, 3)
    + 16 * XorBit(s, 4) + 32 * XorBit(s, 5) + 64 * XorBit(s, 6)
    + 128 * XorBit(s, 7)

Le16(v) == << v % 256, (v \div 256) % 256 >>
Le32(v) == << v % 256, (v \div 256) % 256, (v \div 65536) % 256,
              (v \div 16777216) % 256 >>
FromLe16(b) == b[1] + 256 * b[2]
FromLe32(b) == b[1] + 256 * b[2] + 65536 * b[3] + 16777216 * b[4]

Min(a, b) == IF a < b THEN a ELSE b

\* The byte stored at file offset i-1; distinct per position, so that any
\* reordering, loss or duplication of file bytes is visible.
FileByte(i) == i % 256
FileBytes(from, to) == [k \in 1..(to - from + 1) |-> FileByte(from + k - 1)]

VARIABLES
    g_log_xfer,   \* shears: the transfer session record
    csv,          \* shears: content of /spiffs/gps_points.csv
    files,        \* shears: FILE slots, [open, pos]
    pcE, eN, eBuf, eFp,        \* emitter task: position, n, buf[2..], fp in use
    pcH, hReq, hFp, hSize,     \* host task handler: position, request, locals
    linkUp, linkHandle, linkMtu, mtuExchanged,
    toShears,     \* control writes in flight (base -> shears)
    toBase,       \* notifications in flight (shears -> base)
    s_logCtrlChrHandle, s_logDataChrHandle,
    s_pendingRequest, s_pendingFilename,
    g_cfg, g_state,
    uart,         \* base: frames written to the host serial link
    sessId,       \* history: number of sessions accepted by the shears
    srvOut,       \* history: notifications the shears handed to the stack
    sessReads,    \* history: bytes fread() returned, per session
    cliSess, committed, finished, awaiting,   \* history on the base
    nConnects, nEvents,                       \* counters for the bounds
    g_stateSpiffs, \* base, SPIFFS build of the client: its g_state
    localFile,     \* base, SPIFFS build: bytes of the local copy of the log
    nRx,           \* notifications handed to the SPIFFS build so far
    discovering,   \* base: characteristic discovery is running
    lastRequested, \* history: the name of the latest bleBaseRequestLog() call
    latestNmea,        \* gps logger: the latest-line slot (up to its NUL)
    nmeaValid,         \* gps logger: the validity bit of the slot
    saveRequestedFlag, \* gps logger: the save-request flag
    nmea_buf,          \* uartReadTask: the line being assembled
    pcU,               \* uartReadTask: position
    pcS,               \* saveTask: position
    gpsRx,             \* bytes of the GPS sentence still in the UART driver
    gpsRows,           \* rows storeGgaCsv() appended to the CSV file
    overflow,          \* history: a byte of the line in progress was dropped
    sLine,             \* history: the line the last storeGgaCsv() call saw
    nClears,           \* history: times the save-request flag was cleared
    cycleRows,         \* history: rows appended since the flag was cleared
    nLines, nPresses,  \* counters for the bounds
    uartDown,      \* base: uart_write_bytes() fails on the host serial port
    bridgeRc,      \* base: what the last direct uart_bridge_send() returned
    arrived,       \* history: data notifications taken since STATUS_OK
    nHost,         \* notifications and calls handed to the lone client so far
    uftFile,       \* base-fw: content of its /spiffs/gps_points.csv
    pcT,           \* transferTask: position
    tAttempt,      \* sendWithAck: attempt
    tSize, tSent,  \* transferCsvFile: fileSize, sent
    tChunk,        \* sendWithAck: payload[0..payloadLen-1]
    tPkt,          \* history: which packet sendWithAck() is sending
    wireTx,        \* packets written to the UART, not yet taken by the host
    wireRx,        \* packets the host wrote, not yet read by the base
    transferBusy,  \* base-fw: the busy lock
    transferQueue, \* base-fw: requests waiting in transferQueue
    tXfer,         \* history: number of the transfer in progress
    tAcked,        \* history: packets of this transfer an ACK was taken for
    tCommit,       \* history: the COMMIT payload taken in this transfer
    nTriggers,     \* counter for the bound
    synced,        \* shears: onSync() has run
    advertising,   \* shears: the controller is advertising
    gapConn,       \* shears: a central is connected
    gapLog,        \* history: GAP events handled, and advertising afterwards
    nWrites,       \* counter: START_TRANSFER writes of the lone central
    ledBlinking,   \* shears: the blink flag
    ledLevel,      \* shears: level of the status LED output
    pcL,           \* ledTask: position
    pcC,           \* the caller of the LED functions: position
    solidOn,       \* history: shearsLedSetSolidOn() returned, no call since
    nCalls,        \* counter: connection changes reported to the LED
    pcX,           \* base-fw: a task inside transferStart(): position
    wideXfer,      \* shears: the session record of a long transfer
    wideChunks,    \* history: chunks emitted in that session
    wideSteps      \* counter for the bound

shearsVars == << g_log_xfer, csv, files, pcE, eN, eBuf, eFp,
                 pcH, hReq, hFp, hSize, sessId, srvOut, sessReads >>
linkVars   == << linkUp, linkHandle, linkMtu, mtuExchanged >>
baseVars   == << s_logCtrlChrHandle, s_logDataChrHandle, s_pendingRequest,
                 s_pendingFilename, g_cfg, g_state, uart,
                 cliSess, committed, finished, awaiting >>
cntVars    == << nConnects, nEvents >>
rxVars     == << g_stateSpiffs, localFile, nRx >>
discVars   == << discovering, lastRequested >>
gpsVars    == << latestNmea, nmeaValid, saveRequestedFlag, nmea_buf, pcU, pcS,
                 gpsRx, gpsRows, overflow, sLine, nClears, cycleRows,
                 nLines, nPresses >>
hostVars   == << uartDown, bridgeRc, arrived, nHost >>
uftVars    == << uftFile, pcT, tAttempt, tSize, tSent, tChunk, tPkt,
                 wireTx, wireRx, transferBusy, transferQueue, tXfer, tAcked,
                 tCommit, nTriggers >>
advVars    == << synced, advertising, gapConn, gapLog >>
ledVars    == << ledBlinking, ledLevel, pcL, pcC, solidOn, nCalls >>
wideVars   == << wideXfer, wideChunks, wideSteps >>
extVars    == << hostVars, uftVars, advVars, nWrites, ledVars, pcX,
                 wideVars >>
auxVars    == << rxVars, discVars, gpsVars, extVars >>
nonAdvVars == << shearsVars, linkVars, toShears, toBase, baseVars, cntVars,
                 rxVars, discVars, gpsVars, hostVars, uftVars, nWrites,
                 ledVars, pcX, wideVars >>
xferVars   == << shearsVars, linkVars, toShears, toBase, baseVars, cntVars,
                 rxVars, discVars, extVars >>
vars == << shearsVars, linkVars, toShears, toBase, baseVars, cntVars,
           auxVars >>

(* ---- initial state ---------------------------------------------------- *)
\* log_transfer_server_init(): memset(&g_log_xfer, 0, ...)
LogXferZero ==
    [active |-> FALSE, fp |-> NULL, file_size |-> 0, bytes_sent |-> 0,
     chunk_index |-> 0, chunk_size |-> 0, conn_handle |-> 0,
     ctrl_val_handle |-> 0, data_val_handle |-> 0]

\* log_transfer_client_init(): memset(&g_state, 0, ...)
StateZero ==
    [active |-> FALSE, requestedName |-> "", expectedSize |-> 0,
     bytesReceived |-> 0, nextChunkIndex |-> 0]

CfgZero == [connHandle |-> 0, ctrlChrHandle |-> 0, dataChrHandle |-> 0]

FileClosed == [open |-> FALSE, pos |-> 0]

\* log_transfer_client.c, log_transfer_client_init(): memset(&g_state, 0, ...)
SpiffsZero ==
    [active |-> FALSE, fp |-> FALSE, buf |-> FALSE, buf_size |-> 0,
     ram |-> <<>>, expectedSize |-> 0, bytesReceived |-> 0,
     nextChunkIndex |-> 0]

Init ==
    /\ g_log_xfer = LogXferZero
    /\ csv = FileBytes(1, InitLen)
    /\ files = [s \in 1..MaxFiles |-> FileClosed]
    /\ pcE = "check" /\ eN = 0 /\ eBuf = <<>> /\ eFp = NULL
    /\ pcH = "idle" /\ hReq = <<>> /\ hFp = NULL /\ hSize = 0
    /\ linkUp = FALSE /\ linkHandle = 0 /\ linkMtu = BLE_ATT_MTU_DFLT
    /\ mtuExchanged = FALSE
    /\ toShears = <<>> /\ toBase = <<>>
    /\ s_logCtrlChrHandle = 0 /\ s_logDataChrHandle = 0
    /\ s_pendingRequest = FALSE /\ s_pendingFilename = ""
    /\ g_cfg = CfgZero /\ g_state = StateZero
    /\ uart = <<>>
    /\ sessId = 0 /\ srvOut = <<>> /\ sessReads = <<>>
    /\ cliSess = 0 /\ committed = <<>> /\ finished = <<>> /\ awaiting = 0
    /\ nConnects = 0 /\ nEvents = 0
    /\ g_stateSpiffs = SpiffsZero /\ localFile = <<>> /\ nRx = 0
    /\ discovering = FALSE /\ lastRequested = ""
    /\ latestNmea = <<>> /\ nmeaValid = FALSE /\ saveRequestedFlag = FALSE
    /\ nmea_buf = <<>> /\ pcU = "byte" /\ pcS = "test"
    /\ gpsRx = <<>> /\ gpsRows = <<>> /\ overflow = FALSE /\ sLine = <<>>
    /\ nClears = 0 /\ cycleRows = 0 /\ nLines = 0 /\ nPresses = 0
    /\ uartDown = FALSE /\ bridgeRc = ESP_OK /\ arrived = <<>> /\ nHost = 0
    /\ uftFile = FileBytes(1, UftInitLen)
    /\ pcT = "receive" /\ tAttempt = 0
    /\ tSize = 0 /\ tSent = 0 /\ tChunk = <<>>
    /\ tPkt = [x |-> 0, type |-> 0, off |-> 0]
    /\ wireTx = <<>> /\ wireRx = <<>>
    /\ transferBusy = FALSE /\ transferQueue = 0
    /\ tXfer = 0 /\ tAcked = <<>> /\ tCommit = <<>> /\ nTriggers = 0
    /\ synced = FALSE /\ advertising = FALSE /\ gapConn = FALSE
    /\ gapLog = <<>> /\ nWrites = 0
    /\ ledBlinking = FALSE /\ ledLevel = 0 /\ pcL = "test" /\ pcC = "boot"
    /\ solidOn = FALSE /\ nCalls = 0
    /\ pcX = "idle"
    /\ wideXfer = [active |-> FALSE, file_size |-> 0, bytes_sent |-> 0,
                   chunk_index |-> 0, chunk_size |-> 0]
    /\ wideChunks = 0 /\ wideSteps = 0

(* ---- shears: notifications ------------------------------------------- *)
\* ble_hs_mbuf_from_flat() + ble_gatts_notify_custom(): the notification goes
\* out when the connection handle names the live connection and an mbuf is
\* free; otherwise the call fails and nothing is sent.
NotifyOk(conn) == linkUp /\ conn = linkHandle /\ Len(toBase) < MaxInFlight

Notification(attr, bytes) == [attr |-> attr, data |-> bytes, sess |-> sessId]

\* What the history keeps of one notification handed to the stack.
OutEntry(kind, val) == [kind |-> kind, val |-> val, sess |-> sessId]

\* send_status(): payload = opcode, status, and the size only for STATUS_OK.
StatusPayload(status, file_size) ==
    IF status = STATUS_OK
    THEN << CTRL_EVT_STATUS, status >> \o Le32(file_size)
    ELSE << CTRL_EVT_STATUS, status >>

\* send_status() as run on the record xfer; yields the record it leaves and
\* the notification, if one went out.
SendStatusXfer(xfer) ==
    IF xfer.ctrl_val_handle = 0
    THEN [xfer EXCEPT !.ctrl_val_handle = CtrlValHandle]
    ELSE xfer

\* send_status() on the record xfer, the caller leaving `after` in g_log_xfer.
SendStatusThen(xfer, status, file_size, after) ==
    LET x == SendStatusXfer(xfer)
        ok == NotifyOk(x.conn_handle)
    IN  /\ g_log_xfer' = after
        /\ toBase' = IF ok
                     THEN Append(toBase, Notification(x.ctrl_val_handle,
                                           StatusPayload(status, file_size)))
                     ELSE toBase
        /\ srvOut' = IF ok
                     THEN Append(srvOut, OutEntry("status", status))
                     ELSE srvOut

SendStatus(xfer, status, file_size) ==
    SendStatusThen(xfer, status, file_size, SendStatusXfer(xfer))

(* ---- shears: file access --------------------------------------------- *)
\* fopen(path, "rb"): the C library hands out its first free FILE slot.
FreeSlots == {s \in 1..MaxFiles : ~files[s].open}
FirstFree == CHOOSE s \in FreeSlots : \A t \in FreeSlots : s <= t

\* "/spiffs/<basename>" names an existing file only for the GPS log.
FileExists(name) == name = GPS_LOG_FILE_BASENAME

\* fclose(fp): the slot is released; its position is left as it was.
Fclose(fp) == IF fp = NULL THEN files ELSE [files EXCEPT ![fp].open = FALSE]

(* ---- shears: control-write handler (NimBLE host task) ---------------- *)
\* The handler returns: its arguments and locals are gone.
HReturn == pcH' = "idle" /\ hReq' = <<>> /\ hFp' = NULL /\ hSize' = 0

\* Usable payload of one notification: (mtu - 3) - 2, capped at 160.
MaxNotif(mtu) == IF mtu > 3 THEN mtu - 3 ELSE 0
\* maxNotif - 2 in uint16_t arithmetic, without the test for maxNotif > 2.
MaxPayloadUnguarded(mtu) == (MaxNotif(mtu) + 65534) % 65536

MaxPayload(mtu) == IF MaxNotif(mtu) > 2 THEN MaxNotif(mtu) - 2 ELSE 0
ChunkSizeFor(mtu) == Min(MaxPayload(mtu), MaxChunkPayload)

\* log_ctrl_access_cb() dispatching START_TRANSFER, and the first statement
\* of handle_start_transfer(): g_log_xfer.conn_handle = conn_handle.
HStartConn ==
    /\ pcH = "idle" /\ toShears # <<>>
    /\ Head(toShears).op = CTRL_CMD_START_TRANSFER
    /\ hReq' = Head(toShears)
    /\ toShears' = Tail(toShears)
    /\ g_log_xfer' = [g_log_xfer EXCEPT !.conn_handle = Head(toShears).conn]
    /\ pcH' = "s_mtu"
    /\ UNCHANGED << csv, files, pcE, eN, eBuf, eFp, hFp, hSize, sessId,
                    srvOut, sessReads, linkVars, toBase, baseVars, cntVars, auxVars >>

\* ble_att_mtu(); the zero-payload exit (send_status, then fclose of
\* whatever file g_log_xfer.fp holds); chunk_size and the value handles.
HStartMtu ==
    /\ pcH = "s_mtu"
    /\ IF MaxPayload(linkMtu) = 0
       THEN /\ SendStatusThen(g_log_xfer, STATUS_ERR_FS, 0,
                  [SendStatusXfer(g_log_xfer) EXCEPT !.fp = NULL])
            /\ files' = Fclose(g_log_xfer.fp)
            /\ HReturn
       ELSE /\ g_log_xfer' =
                [g_log_xfer EXCEPT
                   !.chunk_size = ChunkSizeFor(linkMtu),
                   !.ctrl_val_handle = IF @ = 0 THEN CtrlValHandle ELSE @,
                   !.data_val_handle = IF @ = 0 THEN DataValHandle ELSE @]
            /\ pcH' = "s_busy"
            /\ UNCHANGED << toBase, srvOut, files, hReq, hFp, hSize >>
    /\ UNCHANGED << csv, pcE, eN, eBuf, eFp, sessId,
                    sessReads, linkVars, toShears, baseVars, cntVars, auxVars >>

\* if (g_log_xfer.active) { send_status(STATUS_ERR_BUSY, 0); return; }
HStartBusy ==
    /\ pcH = "s_busy"
    /\ IF g_log_xfer.active
       THEN /\ SendStatus(g_log_xfer, STATUS_ERR_BUSY, 0)
            /\ HReturn
       ELSE /\ pcH' = "s_open"
            /\ UNCHANGED << g_log_xfer, toBase, srvOut, hReq, hFp, hSize >>
    /\ UNCHANGED << csv, files, pcE, eN, eBuf, eFp, sessId,
                    sessReads, linkVars, toShears, baseVars, cntVars, auxVars >>

\* The length check, the path, fopen() and the size (fseek/ftell/fseek).
\* filename_len counts every byte after the opcode.
HStartOpen ==
    /\ pcH = "s_open"
    /\ IF hReq.len = 0 \/ hReq.len > MaxBasename
       THEN /\ SendStatus(g_log_xfer, STATUS_ERR_FS, 0)
            /\ HReturn
            /\ UNCHANGED files
       ELSE IF ~FileExists(hReq.name) \/ FreeSlots = {}
       THEN /\ SendStatus(g_log_xfer, STATUS_ERR_NO_FILE, 0)
            /\ HReturn
            /\ UNCHANGED files
       ELSE /\ files' = [files EXCEPT ![FirstFree] = [open |-> TRUE, pos |-> 0]]
            /\ hFp' = FirstFree
            /\ hSize' = Len(csv)
            /\ pcH' = "s_active"
            /\ UNCHANGED << g_log_xfer, toBase, srvOut, hReq >>
    /\ UNCHANGED << csv, pcE, eN, eBuf, eFp, sessId, sessReads,
                    linkVars, toShears, baseVars, cntVars, auxVars >>

\* g_log_xfer.active = true: from here on a session exists.
HStartActive ==
    /\ pcH = "s_active"
    /\ g_log_xfer' = [g_log_xfer EXCEPT !.active = TRUE]
    /\ sessId' = sessId + 1
    /\ sessReads' = Append(sessReads, <<>>)
    /\ pcH' = "s_fp"
    /\ UNCHANGED << csv, files, pcE, eN, eBuf, eFp, hReq, hFp, hSize, srvOut,
                    linkVars, toShears, toBase, baseVars, cntVars, auxVars >>

\* g_log_xfer.fp = fp
HStartFp ==
    /\ pcH = "s_fp"
    /\ g_log_xfer' = [g_log_xfer EXCEPT !.fp = hFp]
    /\ pcH' = "s_size"
    /\ UNCHANGED << csv, files, pcE, eN, eBuf, eFp, hReq, hFp, hSize, sessId,
                    srvOut, sessReads, linkVars, toShears, toBase, baseVars,
                    cntVars, auxVars >>

\* g_log_xfer.file_size = (uint32_t)size
HStartSize ==
    /\ pcH = "s_size"
    /\ g_log_xfer' = [g_log_xfer EXCEPT !.file_size = hSize]
    /\ pcH' = "s_sent"
    /\ UNCHANGED << csv, files, pcE, eN, eBuf, eFp, hReq, hFp, hSize, sessId,
                    srvOut, sessReads, linkVars, toShears, toBase, baseVars,
                    cntVars, auxVars >>

\* g_log_xfer.bytes_sent = 0
HStartSent ==
    /\ pcH = "s_sent"
    /\ g_log_xfer' = [g_log_xfer EXCEPT !.bytes_sent = 0]
    /\ pcH' = "s_index"
    /\ UNCHANGED << csv, files, pcE, eN, eBuf, eFp, hReq, hFp, hSize, sessId,
                    srvOut, sessReads, linkVars, toShears, toBase, baseVars,
                    cntVars, auxVars >>

\* g_log_xfer.chunk_index = 0
HStartIndex ==
    /\ pcH = "s_index"
    /\ g_log_xfer' = [g_log_xfer EXCEPT !.chunk_index = 0]
    /\ pcH' = "s_ok"
    /\ UNCHANGED << csv, files, pcE, eN, eBuf, eFp, hReq, hFp, hSize, sessId,
                    srvOut, sessReads, linkVars, toShears, toBase, baseVars,
                    cntVars, auxVars >>

\* send_status(STATUS_OK, g_log_xfer.file_size)
HStartOk ==
    /\ pcH = "s_ok"
    /\ SendStatus(g_log_xfer, STATUS_OK, g_log_xfer.file_size)
    /\ HReturn
    /\ UNCHANGED << csv, files, pcE, eN, eBuf, eFp, sessId,
                    sessReads, linkVars, toShears, baseVars, cntVars, auxVars >>

\* log_ctrl_access_cb() dispatching ABORT, and handle_abort_transfer()'s
\* test of g_log_xfer.active.
HAbortCheck ==
    /\ pcH = "idle" /\ toShears # <<>>
    /\ Head(toShears).op = CTRL_CMD_ABORT
    /\ toShears' = Tail(toShears)
    /\ pcH' = IF g_log_xfer.active THEN "a_close" ELSE "idle"
    /\ UNCHANGED << g_log_xfer, csv, files, pcE, eN, eBuf, eFp, hReq, hFp,
                    hSize, sessId, srvOut, sessReads, linkVars, toBase,
                    baseVars, cntVars, auxVars >>

\* if (g_log_xfer.fp) { fclose(g_log_xfer.fp); g_log_xfer.fp = NULL; }
HAbortClose ==
    /\ pcH = "a_close"
    /\ files' = Fclose(g_log_xfer.fp)
    /\ g_log_xfer' = [g_log_xfer EXCEPT !.fp = NULL]
    /\ pcH' = "a_inactive"
    /\ UNCHANGED << csv, pcE, eN, eBuf, eFp, hReq, hFp, hSize, sessId, srvOut,
                    sessReads, linkVars, toShears, toBase, baseVars, cntVars, auxVars >>

\* g_log_xfer.active = false
HAbortInactive ==
    /\ pcH = "a_inactive"
    /\ g_log_xfer' = [g_log_xfer EXCEPT !.active = FALSE]
    /\ pcH' = "a_status"
    /\ UNCHANGED << csv, files, pcE, eN, eBuf, eFp, hReq, hFp, hSize, sessId,
                    srvOut, sessReads, linkVars, toShears, toBase, baseVars,
                    cntVars, auxVars >>

\* send_status(STATUS_TRANSFER_ABORTED, g_log_xfer.file_size)
HAbortStatus ==
    /\ pcH = "a_status"
    /\ SendStatus(g_log_xfer, STATUS_TRANSFER_ABORTED, g_log_xfer.file_size)
    /\ HReturn
    /\ UNCHANGED << csv, files, pcE, eN, eBuf, eFp, sessId,
                    sessReads, linkVars, toShears, baseVars, cntVars, auxVars >>

(* ---- shears: log_transfer_task (the emitter) ------------------------- *)
\* vTaskDelay() and the next turn of for (;;): n and buf start afresh.
ELoop == pcE' = "check" /\ eN' = 0 /\ eBuf' = <<>> /\ eFp' = NULL

\* if (g_log_xfer.active && g_log_xfer.fp): the fp seen here may stay in a
\* register for the fread() that follows.
ECheck ==
    /\ pcE = "check"
    /\ g_log_xfer.active /\ g_log_xfer.fp # NULL
    /\ eFp' = g_log_xfer.fp
    /\ pcE' = "read"
    /\ UNCHANGED << g_log_xfer, csv, files, eN, eBuf, pcH, hReq, hFp, hSize,
                    sessId, srvOut, sessReads, linkVars, toShears, toBase,
                    baseVars, cntVars, auxVars >>

\* Bytes fread() can take from an open slot.
Avail(fp) == Len(csv) - files[fp].pos
ReadLen(fp, count) == Min(count, Avail(fp))

\* n = fread(&buf[2], 1, g_log_xfer.chunk_size, g_log_xfer.fp).  The fp passed
\* is the one seen by the test or the one in memory now.  Reading through a
\* closed FILE is undefined: it fails (n = 0) or it still serves the bytes at
\* its old position.  A slot that was handed out again reads the new file.
EReadWith(fp, n) ==
    /\ eN' = n
    /\ eBuf' = SubSeq(csv, files[fp].pos + 1, files[fp].pos + n)
    /\ files' = [files EXCEPT ![fp].pos = @ + n]
    /\ sessReads' = IF n > 0 /\ sessId > 0
                    THEN [sessReads EXCEPT ![sessId] = @ \o eBuf']
                    ELSE sessReads
    /\ pcE' = "notify"

ERead ==
    /\ pcE = "read"
    /\ \E fp \in {eFp, g_log_xfer.fp} :
          /\ fp # NULL
          /\ \E n \in {0, ReadLen(fp, g_log_xfer.chunk_size)} :
                /\ (files[fp].open => n = ReadLen(fp, g_log_xfer.chunk_size))
                /\ EReadWith(fp, n)
    /\ UNCHANGED << g_log_xfer, csv, eFp, pcH, hReq, hFp, hSize, sessId,
                    srvOut, linkVars, toShears, toBase, baseVars, cntVars, auxVars >>

\* fread(..., NULL): the fp in memory was cleared after the test.
EReadNull ==
    /\ pcE = "read"
    /\ g_log_xfer.fp = NULL
    /\ pcE' = "panic"
    /\ UNCHANGED << g_log_xfer, csv, files, eN, eBuf, eFp, pcH, hReq, hFp,
                    hSize, sessId, srvOut, sessReads, linkVars, toShears,
                    toBase, baseVars, cntVars, auxVars >>

\* The chunk: index (little-endian 16) then the bytes read.
ChunkBytes(idx, payload) == Le16(idx) \o payload

\* if (n > 0 && data_val_handle != 0): idx = chunk_index, notify.
ENotify ==
    /\ pcE = "notify"
    /\ IF eN > 0 /\ g_log_xfer.data_val_handle # 0
       THEN /\ pcE' = "sent"
            /\ IF NotifyOk(g_log_xfer.conn_handle)
               THEN /\ toBase' = Append(toBase,
                          Notification(g_log_xfer.data_val_handle,
                              ChunkBytes(g_log_xfer.chunk_index, eBuf)))
                    /\ srvOut' = Append(srvOut,
                          OutEntry("chunk", g_log_xfer.chunk_index))
               ELSE UNCHANGED << toBase, srvOut >>
       ELSE /\ pcE' = "eof"
            /\ UNCHANGED << toBase, srvOut >>
    /\ UNCHANGED << g_log_xfer, csv, files, eN, eBuf, eFp, pcH, hReq, hFp,
                    hSize, sessId, sessReads, linkVars, toShears, baseVars,
                    cntVars, auxVars >>

\* g_log_xfer.bytes_sent += n (uint32_t; file sizes here stay far below 2^32)
ECountSent ==
    /\ pcE = "sent"
    /\ g_log_xfer' = [g_log_xfer EXCEPT !.bytes_sent = @ + eN]
    /\ pcE' = "index"
    /\ UNCHANGED << csv, files, eN, eBuf, eFp, pcH, hReq, hFp, hSize, sessId,
                    srvOut, sessReads, linkVars, toShears, toBase, baseVars,
                    cntVars, auxVars >>

\* g_log_xfer.chunk_index++
ECountIndex ==
    /\ pcE = "index"
    /\ g_log_xfer' = [g_log_xfer EXCEPT !.chunk_index = (@ + 1) % 65536]
    /\ pcE' = "eof"
    /\ UNCHANGED << csv, files, eN, eBuf, eFp, pcH, hReq, hFp, hSize, sessId,
                    srvOut, sessReads, linkVars, toShears, toBase, baseVars,
                    cntVars, auxVars >>

\* if (n < g_log_xfer.chunk_size): short read; otherwise delay and loop.
EEof ==
    /\ pcE = "eof"
    /\ IF eN < g_log_xfer.chunk_size
       THEN pcE' = "close" /\ UNCHANGED << eN, eBuf, eFp >>
       ELSE ELoop
    /\ UNCHANGED << g_log_xfer, csv, files, pcH, hReq, hFp,
                    hSize, sessId, srvOut, sessReads, linkVars, toShears,
                    toBase, baseVars, cntVars, auxVars >>

\* if (g_log_xfer.fp) { fclose(g_log_xfer.fp); g_log_xfer.fp = NULL; }
EClose ==
    /\ pcE = "close"
    /\ files' = Fclose(g_log_xfer.fp)
    /\ g_log_xfer' = [g_log_xfer EXCEPT !.fp = NULL]
    /\ pcE' = "inactive"
    /\ UNCHANGED << csv, eN, eBuf, eFp, pcH, hReq, hFp, hSize, sessId, srvOut,
                    sessReads, linkVars, toShears, toBase, baseVars, cntVars, auxVars >>

\* g_log_xfer.active = false
EInactive ==
    /\ pcE = "inactive"
    /\ g_log_xfer' = [g_log_xfer EXCEPT !.active = FALSE]
    /\ pcE' = "done"
    /\ UNCHANGED << csv, files, eN, eBuf, eFp, pcH, hReq, hFp, hSize, sessId,
                    srvOut, sessReads, linkVars, toShears, toBase, baseVars,
                    cntVars, auxVars >>

\* send_status(STATUS_TRANSFER_DONE, g_log_xfer.file_size), then the delay.
EDone ==
    /\ pcE = "done"
    /\ SendStatus(g_log_xfer, STATUS_TRANSFER_DONE, g_log_xfer.file_size)
    /\ ELoop
    /\ UNCHANGED << csv, files, pcH, hReq, hFp, hSize, sessId,
                    sessReads, linkVars, toShears, baseVars, cntVars, auxVars >>

(* ---- shears: the save worker's effect on the file -------------------- *)
\* storeGgaCsv(): fopen(GPS_LOG_FILE_PATH, "a"); fprintf(one row); fclose.
SaveAppend ==
    /\ nEvents < MaxEvents
    /\ csv' = csv \o FileBytes(Len(csv) + 1, Len(csv) + RowLen)
    /\ nEvents' = nEvents + 1
    /\ UNCHANGED auxVars
    /\ UNCHANGED << g_log_xfer, files, pcE, eN, eBuf, eFp, pcH, hReq, hFp,
                    hSize, sessId, srvOut, sessReads, linkVars, toShears,
                    toBase, baseVars, nConnects >>

(* ---- base: framed UART uplink ---------------------------------------- *)
\* A frame whose checksum also covers the start byte.
FrameFromStart(type, payload) ==
    LET body == << type, Len(payload) % 256, (Len(payload) \div 256) % 256 >>
                \o payload
    IN  << UART_FRAME_START >> \o body
        \o << XorAll(<< UART_FRAME_START >> \o body) >>

\* uart_bridge_send(): [0xAA][type][len lo][len hi][payload][xor checksum].
Frame(type, payload) ==
    LET body == << type, Len(payload) % 256, (Len(payload) \div 256) % 256 >>
                \o payload
    IN  << UART_FRAME_START >> \o body \o << XorAll(body) >>

\* A uart_bridge_send() that frames whatever length it is given.
UartBridgeSendUnchecked(stream, type, payload) ==
    IF uartDown
    THEN [rc |-> ESP_FAIL, out |-> stream]
    ELSE [rc |-> ESP_OK, out |-> Append(stream, Frame(type, payload))]

\* uart_bridge_send(type, payload, len): what it returns and the serial
\* stream it leaves.  uart_write_bytes() takes the whole frame or, while the
\* driver is down, fails.
UartBridgeSend(stream, type, payload) ==
    IF Len(payload) > UART_FRAME_MAX_PAYLOAD
    THEN [rc |-> ESP_ERR_INVALID_SIZE, out |-> stream]
    ELSE IF uartDown
    THEN [rc |-> ESP_FAIL, out |-> stream]
    ELSE [rc |-> ESP_OK, out |-> Append(stream, Frame(type, payload))]

\* The serial stream after a call whose return value the caller drops.
UartSend(stream, type, payload) == UartBridgeSend(stream, type, payload).out

UartSendStatus(stream, code) == UartSend(stream, UART_MSG_STATUS, << code >>)

\* uart_bridge_send_log_line(): refuses an empty line.
UartSendLogLine(stream, line) ==
    IF Len(line) = 0 THEN stream ELSE UartSend(stream, UART_MSG_LOG_LINE, line)

(* ---- base: log transfer client --------------------------------------- *)
\* The control write built by log_transfer_client_request_file(): opcode,
\* the name and its NUL; len is what the shears get as filename_len.
StartWrite(name, conn) ==
    [op |-> CTRL_CMD_START_TRANSFER, name |-> name, len |-> Len(name) + 1,
     conn |-> conn]

\* ble_gattc_write_flat() reaches the shears only over the live connection.
WriteOk(conn) == linkUp /\ conn = linkHandle

\* log_transfer_client_request_file(filename) run on (cfg, st).
RequestFile(name, cfg, st) ==
    IF name = "" \/ cfg.ctrlChrHandle = 0
    THEN /\ g_state' = st
         /\ UNCHANGED << toShears, awaiting >>
    ELSE /\ g_state' = [st EXCEPT !.requestedName = name]
         /\ IF WriteOk(cfg.connHandle)
            THEN /\ toShears' = Append(toShears, StartWrite(name, cfg.connHandle))
                 /\ awaiting' = awaiting + 1
            ELSE UNCHANGED << toShears, awaiting >>

\* bleBaseRequestLog(filename): forward when both handles are known,
\* otherwise keep the name in the single pending slot.
BleBaseRequestLog(name) ==
    IF s_logCtrlChrHandle # 0 /\ s_logDataChrHandle # 0
    THEN /\ RequestFile(name, g_cfg, g_state)
         /\ UNCHANGED << s_pendingRequest, s_pendingFilename >>
    ELSE /\ s_pendingFilename' = name
         /\ s_pendingRequest' = TRUE
         /\ UNCHANGED << g_state, toShears, awaiting >>

\* The application asks for a log at a time of its choosing.
AppRequest ==
    /\ nEvents < MaxEvents
    /\ \E name \in RequestNames :
          BleBaseRequestLog(name) /\ lastRequested' = name
    /\ nEvents' = nEvents + 1
    /\ UNCHANGED << rxVars, gpsVars, extVars, discovering >>
    /\ UNCHANGED << shearsVars, linkVars, toBase, s_logCtrlChrHandle,
                    s_logDataChrHandle, g_cfg, uart, cliSess, committed,
                    finished, nConnects >>

\* gattDiscChrCb() with status 0, once per characteristic: the value handle
\* is stored as soon as the characteristic is found.
DiscCtrlChr ==
    /\ linkUp /\ discovering /\ s_logCtrlChrHandle = 0
    /\ s_logCtrlChrHandle' = CtrlValHandle
    /\ UNCHANGED << shearsVars, linkVars, toShears, toBase, s_logDataChrHandle,
                    s_pendingRequest, s_pendingFilename, g_cfg, g_state, uart,
                    cliSess, committed, finished, awaiting, cntVars, auxVars >>

DiscDataChr ==
    /\ linkUp /\ discovering
    /\ s_logCtrlChrHandle # 0 /\ s_logDataChrHandle = 0
    /\ s_logDataChrHandle' = DataValHandle
    /\ UNCHANGED << shearsVars, linkVars, toShears, toBase, s_logCtrlChrHandle,
                    s_pendingRequest, s_pendingFilename, g_cfg, g_state, uart,
                    cliSess, committed, finished, awaiting, cntVars, auxVars >>

\* gattDiscChrCb() at BLE_HS_EDONE with both handles found: client
\* initialised, the queued request issued.
DiscoveryDone ==
    /\ linkUp /\ discovering
    /\ s_logCtrlChrHandle # 0 /\ s_logDataChrHandle # 0
    /\ discovering' = FALSE
    /\ g_cfg' = [connHandle |-> linkHandle,
                 ctrlChrHandle |-> s_logCtrlChrHandle,
                 dataChrHandle |-> s_logDataChrHandle]
    /\ IF s_pendingRequest
       THEN RequestFile(s_pendingFilename, g_cfg', StateZero)
       ELSE /\ g_state' = StateZero
            /\ UNCHANGED << toShears, awaiting >>
    /\ s_pendingRequest' = FALSE
    /\ UNCHANGED << shearsVars, linkVars, toBase, s_logCtrlChrHandle,
                    s_logDataChrHandle, s_pendingFilename, uart,
                    cliSess, committed, finished, cntVars, rxVars,
                    gpsVars, extVars, lastRequested >>

\* log_transfer_client_on_ctrl_notify(data, len)
OnCtrlNotify(msg) ==
    LET data == msg.data
        status == data[2]
    IN  IF Len(data) < 2 \/ data[1] # CTRL_EVT_STATUS
        THEN UNCHANGED << g_state, uart, cliSess, committed, finished, awaiting >>
        ELSE IF status = STATUS_OK
        THEN IF Len(data) < 6
             THEN UNCHANGED << g_state, uart, cliSess, committed, finished,
                               awaiting >>
             ELSE /\ g_state' = [g_state EXCEPT
                        !.active = TRUE,
                        !.expectedSize = FromLe32(SubSeq(data, 3, 6)),
                        !.bytesReceived = 0,
                        !.nextChunkIndex = 0]
                  /\ uart' = UartSendStatus(uart, UART_STATUS_TRANSFER_START)
                  /\ cliSess' = msg.sess
                  /\ committed' = <<>>
                  /\ awaiting' = IF awaiting > 0 THEN awaiting - 1 ELSE 0
                  /\ UNCHANGED finished
        ELSE IF status = STATUS_TRANSFER_DONE
        THEN /\ g_state' = [g_state EXCEPT !.active = FALSE]
             /\ uart' = UartSendStatus(uart, UART_STATUS_TRANSFER_DONE)
             /\ finished' = IF g_state.active
                            THEN Append(finished,
                                   [sess |-> cliSess, bytes |-> committed])
                            ELSE finished
             /\ UNCHANGED << cliSess, committed, awaiting >>
        ELSE IF status \in {STATUS_ERR_NO_FILE, STATUS_ERR_BUSY, STATUS_ERR_FS}
        THEN /\ uart' = UartSendStatus(uart, UART_STATUS_TRANSFER_ERROR)
             /\ awaiting' = IF awaiting > 0 THEN awaiting - 1 ELSE 0
             /\ UNCHANGED << g_state, cliSess, committed, finished >>
        ELSE IF status = STATUS_TRANSFER_ABORTED
        THEN /\ g_state' = [g_state EXCEPT !.active = FALSE]
             /\ uart' = UartSendStatus(uart, UART_STATUS_TRANSFER_ERROR)
             /\ UNCHANGED << cliSess, committed, finished, awaiting >>
        ELSE UNCHANGED << g_state, uart, cliSess, committed, finished, awaiting >>

\* A client that takes the received index as the expected one and commits.
OnDataNotifyRealign(msg) ==
    LET data == msg.data
        payload == SubSeq(data, 3, Len(data))
    IN  IF ~g_state.active \/ Len(data) < 3
        THEN UNCHANGED << g_state, uart, committed >>
        ELSE /\ uart' = UartSendLogLine(uart, payload)
             /\ g_state' = [g_state EXCEPT
                   !.bytesReceived = @ + Len(payload),
                   !.nextChunkIndex = (FromLe16(data) + 1) % 65536]
             /\ committed' = committed \o payload

\* A client that counts a chunk without forwarding it.
OnDataNotifyCountOnly(msg) ==
    LET data == msg.data
        payload == SubSeq(data, 3, Len(data))
    IN  IF ~g_state.active \/ Len(data) < 3
           \/ FromLe16(data) # g_state.nextChunkIndex
        THEN UNCHANGED << g_state, uart, committed >>
        ELSE /\ uart' = uart
             /\ g_state' = [g_state EXCEPT
                   !.bytesReceived = @ + Len(payload),
                   !.nextChunkIndex = (@ + 1) % 65536]
             /\ committed' = committed \o payload

\* A client that does not look at the active flag.
OnDataNotifyUnguarded(msg) ==
    LET data == msg.data
        payload == SubSeq(data, 3, Len(data))
    IN  IF Len(data) < 3 \/ FromLe16(data) # g_state.nextChunkIndex
        THEN UNCHANGED << g_state, uart, committed >>
        ELSE /\ uart' = UartSendLogLine(uart, payload)
             /\ g_state' = [g_state EXCEPT
                   !.bytesReceived = @ + Len(payload),
                   !.nextChunkIndex = (@ + 1) % 65536]
             /\ committed' = committed \o payload

\* log_transfer_client_on_data_notify(data, len)
OnDataNotify(msg) ==
    LET data == msg.data
        chunkIndex == FromLe16(data)
        payload == SubSeq(data, 3, Len(data))
    IN  IF ~g_state.active \/ Len(data) < 3
           \/ chunkIndex # g_state.nextChunkIndex
        THEN UNCHANGED << g_state, uart, committed >>
        ELSE /\ uart' = UartSendLogLine(uart, payload)
             /\ g_state' = [g_state EXCEPT
                   !.bytesReceived = @ + Len(payload),
                   !.nextChunkIndex = (@ + 1) % 65536]
             /\ committed' = committed \o payload

\* gapEventHandler(), BLE_GAP_EVENT_NOTIFY_RX: route by attribute handle.
BaseCtrlNotify ==
    /\ toBase # <<>>
    /\ Head(toBase).attr = s_logCtrlChrHandle
    /\ OnCtrlNotify(Head(toBase))
    /\ toBase' = Tail(toBase)
    /\ UNCHANGED << shearsVars, linkVars, toShears, s_logCtrlChrHandle,
                    s_logDataChrHandle, s_pendingRequest, s_pendingFilename,
                    g_cfg, cntVars, auxVars >>

BaseDataNotify ==
    /\ toBase # <<>>
    /\ Head(toBase).attr # s_logCtrlChrHandle
    /\ Head(toBase).attr = s_logDataChrHandle
    /\ OnDataNotify(Head(toBase))
    /\ toBase' = Tail(toBase)
    /\ UNCHANGED << shearsVars, linkVars, toShears, s_logCtrlChrHandle,
                    s_logDataChrHandle, s_pendingRequest, s_pendingFilename,
                    g_cfg, cliSess, finished, awaiting, cntVars, auxVars >>

\* A notification for a handle the base does not know (yet) is ignored.
BaseOtherNotify ==
    /\ toBase # <<>>
    /\ Head(toBase).attr # s_logCtrlChrHandle
    /\ Head(toBase).attr # s_logDataChrHandle
    /\ toBase' = Tail(toBase)
    /\ UNCHANGED << shearsVars, linkVars, toShears, baseVars, cntVars, auxVars >>

(* ---- the link -------------------------------------------------------- *)
\* BLE_GAP_EVENT_CONNECT on both sides.  The base reports link-up to the
\* host and bleConnChanged(true) asks for the GPS log, which is queued
\* because the handles are not known before discovery; the shears only
\* drive their LED.  The controller numbers the first connection 0 and may
\* or may not reuse the number for the next one.
Connect ==
    /\ ~linkUp /\ pcH = "idle" /\ pcE # "panic"
    /\ nConnects < MaxConnects
    /\ nConnects' = nConnects + 1
    /\ UNCHANGED << rxVars, gpsVars, extVars >>
    /\ discovering' = TRUE
    /\ lastRequested' = GPS_LOG_FILE_BASENAME
    /\ linkUp' = TRUE
    /\ \E h \in ConnHandles : (nConnects = 0 => h = 0) /\ linkHandle' = h
    /\ linkMtu' = BLE_ATT_MTU_DFLT
    /\ mtuExchanged' = FALSE
    /\ uart' = UartSendStatus(uart, UART_STATUS_SHEAR_CONNECTED)
    /\ BleBaseRequestLog(GPS_LOG_FILE_BASENAME)
    /\ s_logCtrlChrHandle' = 0
    /\ s_logDataChrHandle' = 0
    /\ UNCHANGED << shearsVars, toBase, g_cfg, cliSess, committed, finished,
                    nEvents >>

\* The base's handling of BLE_GAP_EVENT_DISCONNECT, with what is in flight
\* lost.  The shears' handler restarts advertising and touches no session
\* state.
LinkDown ==
    /\ linkUp' = FALSE
    /\ toShears' = <<>>
    /\ toBase' = <<>>
    /\ s_logCtrlChrHandle' = 0
    /\ s_logDataChrHandle' = 0
    /\ uart' = UartSendStatus(uart, UART_STATUS_SHEAR_DISCONNECTED)
    /\ awaiting' = 0
    /\ discovering' = FALSE
    /\ linkMtu' = BLE_ATT_MTU_DFLT /\ mtuExchanged' = FALSE
    /\ UNCHANGED << linkHandle, s_pendingRequest,
                    s_pendingFilename, g_cfg, g_state, cliSess, committed,
                    finished >>

Disconnect ==
    /\ linkUp /\ pcH = "idle" /\ pcE # "panic"
    /\ nEvents < MaxEvents
    /\ nEvents' = nEvents + 1
    /\ UNCHANGED << rxVars, gpsVars, extVars, lastRequested >>
    /\ LinkDown
    /\ UNCHANGED << shearsVars, nConnects >>

\* The central exchanges the ATT MTU (once per connection).
MtuExchange ==
    /\ linkUp /\ ~mtuExchanged /\ pcH = "idle"
    /\ nEvents < MaxEvents
    /\ nEvents' = nEvents + 1
    /\ UNCHANGED auxVars
    /\ linkMtu' = PreferredMtu
    /\ mtuExchanged' = TRUE
    /\ UNCHANGED << shearsVars, linkUp, linkHandle, toShears, toBase,
                    baseVars, nConnects >>

\* The central writes CTRL_CMD_ABORT to the control characteristic.
CentralAbort ==
    /\ linkUp /\ nEvents < MaxEvents
    /\ nEvents' = nEvents + 1
    /\ UNCHANGED auxVars
    /\ toShears' = Append(toShears,
           [op |-> CTRL_CMD_ABORT, name |-> "", len |-> 0, conn |-> linkHandle])
    /\ UNCHANGED << shearsVars, linkVars, toBase, baseVars, nConnects >>

\* The panic handler restarts the shears: RAM state is initialised again
\* (log_transfer_server_init), every FILE is gone, the link drops.
Restart ==
    /\ pcE = "panic"
    /\ g_log_xfer' = LogXferZero
    /\ files' = [s \in 1..MaxFiles |-> FileClosed]
    /\ pcE' = "check" /\ eN' = 0 /\ eBuf' = <<>> /\ eFp' = NULL
    /\ pcH' = "idle" /\ hReq' = <<>> /\ hFp' = NULL /\ hSize' = 0
    /\ IF linkUp
       THEN LinkDown
       ELSE UNCHANGED << linkVars, toShears, toBase, baseVars, discovering >>
    /\ UNCHANGED << csv, sessId, srvOut, sessReads, cntVars, rxVars,
                    gpsVars, extVars, lastRequested >>

(* ---- specification --------------------------------------------------- *)
HostTask ==
    \/ HStartConn \/ HStartMtu \/ HStartBusy \/ HStartOpen \/ HStartActive
    \/ HStartFp \/ HStartSize \/ HStartSent \/ HStartIndex \/ HStartOk
    \/ HAbortCheck \/ HAbortClose \/ HAbortInactive \/ HAbortStatus

EmitterTask ==
    \/ ECheck \/ ERead \/ EReadNull \/ ENotify \/ ECountSent \/ ECountIndex
    \/ EEof \/ EClose \/ EInactive \/ EDone

BaseTask ==
    \/ AppRequest \/ DiscCtrlChr \/ DiscDataChr \/ DiscoveryDone
    \/ BaseCtrlNotify \/ BaseDataNotify \/ BaseOtherNotify

Next ==
    \/ HostTask \/ EmitterTask \/ BaseTask
    \/ SaveAppend \/ Connect \/ Disconnect \/ MtuExchange \/ CentralAbort
    \/ Restart

Spec == Init /\ [][Next]_vars

(* ---- a wider environment: small and changing MTU, long names --------- *)
\* The values of ble_att_mtu() that leave no payload: 0, its answer when it
\* finds no channel for the connection handle, and 5, the largest such value.
LowMtus == {0, 5}

\* ble_att_mtu() comes to answer one of them on this connection.
AttMtuLow ==
    /\ linkUp /\ ~mtuExchanged /\ pcH = "idle"
    /\ nEvents < MaxEvents
    /\ nEvents' = nEvents + 1
    /\ \E mtu \in LowMtus : linkMtu' = mtu
    /\ mtuExchanged' = TRUE
    /\ UNCHANGED << shearsVars, linkUp, linkHandle, toShears, toBase,
                    baseVars, nConnects, auxVars >>

\* Names an application can ask for that come near the length limit of the
\* shears: 47, 48 and 49 characters.
LongNames ==
    {"aaaaaaaaaaaaaaaaaaaaaaaaaaaaaaaaaaaaaaaaaaa.csv",
     "bbbbbbbbbbbbbbbbbbbbbbbbbbbbbbbbbbbbbbbbbbbb.csv",
     "ccccccccccccccccccccccccccccccccccccccccccccc.csv"}

\* The application asks for a log with such a name.
AppRequestLong ==
    /\ nEvents < MaxEvents
    /\ \E name \in LongNames :
          BleBaseRequestLog(name) /\ lastRequested' = name
    /\ nEvents' = nEvents + 1
    /\ UNCHANGED << rxVars, gpsVars, extVars, discovering >>
    /\ UNCHANGED << shearsVars, linkVars, toBase, s_logCtrlChrHandle,
                    s_logDataChrHandle, g_cfg, uart, cliSess, committed,
                    finished, nConnects >>

\* char basename[48]; memcpy(basename, filename_buf, filename_len);
\* basename[filename_len] = '\0'.  With filename_len = 48 the NUL is written
\* one byte past the array: undefined.  Either the byte lands where it does
\* no harm and the handler goes on (HStartOpen), or the stack check finds the
\* frame damaged and the firmware panics (this step).
HStartOverflow ==
    /\ pcH = "s_open"
    /\ hReq.len = MaxBasename
    /\ pcH' = "panic" /\ pcE' = "panic"
    /\ UNCHANGED << g_log_xfer, csv, files, eN, eBuf, eFp, hReq, hFp, hSize,
                    sessId, srvOut, sessReads, linkVars, toShears, toBase,
                    baseVars, cntVars, auxVars >>

\* The link is lost while a session runs with the chunk size of an exchanged
\* MTU; the next connection starts at the default MTU again.
LinkLossAtMtu ==
    /\ linkUp /\ pcH = "idle" /\ pcE # "panic"
    /\ mtuExchanged /\ linkMtu = PreferredMtu
    /\ g_log_xfer.active
    /\ LinkDown
    /\ UNCHANGED << shearsVars, cntVars, rxVars, gpsVars, extVars,
                    lastRequested >>

NextMtu ==
    \/ Next \/ AttMtuLow \/ AppRequestLong \/ HStartOverflow
    \/ LinkLossAtMtu

SpecMtu == Init /\ [][NextMtu]_vars

(* ---- the server with a central of its own ----------------------------- *)
MaxWrites == 2   \* START_TRANSFER writes of the central in one run

\* Any central may write START_TRANSFER for the GPS log to the control
\* characteristic, at any time and as often as it likes.
CentralStart ==
    /\ linkUp /\ nWrites < MaxWrites
    /\ nWrites' = nWrites + 1
    /\ toShears' = Append(toShears,
                          StartWrite(GPS_LOG_FILE_BASENAME, linkHandle))
    /\ UNCHANGED << shearsVars, linkVars, toBase, baseVars, cntVars, rxVars,
                    discVars, gpsVars, hostVars, uftVars, advVars, ledVars,
                    pcX, wideVars >>

\* The notifications stay in flight: the server never looks at what
\* became of one.
NextSrv ==
    \/ HostTask \/ EmitterTask \/ Restart
    \/ Connect \/ AttMtuLow \/ CentralStart \/ CentralAbort

\* The scheduling of the firmware: log_transfer_task is a FreeRTOS task that
\* runs every 10 or 50 ms, the NimBLE host task takes every queued write, and
\* the panic handler always restarts the chip.
SpecSrv ==
    /\ Init /\ [][NextSrv]_vars
    /\ WF_vars(EmitterTask) /\ WF_vars(HostTask) /\ WF_vars(Restart)

(* ---- base: the client and the uplink on their own --------------------- *)
\* The client of main.c driven by the notifications themselves, drawn from
\* small sets, so that lost, repeated and reordered chunks all occur.
MaxHost      == 5   \* notifications handed to the client in one run
MaxHostIndex == 3   \* largest chunk index a notification carries
HostFileSize == 4   \* the size announced by a STATUS_OK for a file with bytes
MaxBridge    == 2   \* leading events that may be direct uart_bridge_send() calls

HostCtrlInputs ==
    {StatusPayload(STATUS_OK, size) : size \in {0, HostFileSize}}
    \cup {StatusPayload(st, 0) : st \in {STATUS_TRANSFER_DONE, STATUS_ERR_BUSY}}

\* Chunk i carries the one file byte at offset i; one notification is too
\* short to hold a payload.
HostDataInputs ==
    {ChunkBytes(i, << FileByte(i + 1) >>) : i \in 0..MaxHostIndex}
    \cup {Le16(0)}

\* A control notification reaches log_transfer_client_on_ctrl_notify().
HostCtrlNotify ==
    /\ nHost < MaxHost
    /\ \E data \in HostCtrlInputs :
          /\ OnCtrlNotify([attr |-> CtrlValHandle, data |-> data, sess |-> 0])
          /\ arrived' = IF data[2] = STATUS_OK THEN <<>>
                        ELSE IF g_state.active
                        THEN Append(arrived, [attr |-> CtrlValHandle,
                                              data |-> data])
                        ELSE arrived
    /\ nHost' = nHost + 1
    /\ UNCHANGED << shearsVars, linkVars, toShears, toBase,
                    s_logCtrlChrHandle, s_logDataChrHandle, s_pendingRequest,
                    s_pendingFilename, g_cfg, cntVars, rxVars, discVars,
                    gpsVars, uartDown, bridgeRc, uftVars, advVars, nWrites, ledVars, pcX,
                    wideVars >>

\* A data notification reaches log_transfer_client_on_data_notify().
HostDataNotify ==
    /\ nHost < MaxHost
    /\ \E data \in HostDataInputs :
          /\ OnDataNotify([attr |-> DataValHandle, data |-> data, sess |-> 0])
          /\ arrived' = IF g_state.active
                        THEN Append(arrived, [attr |-> DataValHandle,
                                              data |-> data])
                        ELSE arrived
    /\ nHost' = nHost + 1
    /\ UNCHANGED << shearsVars, linkVars, toShears, toBase,
                    s_logCtrlChrHandle, s_logDataChrHandle, s_pendingRequest,
                    s_pendingFilename, g_cfg, cliSess, finished, awaiting,
                    cntVars, rxVars, discVars, gpsVars, uartDown, bridgeRc,
                    uftVars, advVars, nWrites, ledVars, pcX,
                    wideVars >>

NextHost == HostCtrlNotify \/ HostDataNotify

SpecHost == Init /\ [][NextHost]_vars

\* Payloads handed to uart_bridge_send() directly: none, the largest one it
\* frames, and one byte more.
BridgePayloads ==
    {<<>>, FileBytes(1, UART_FRAME_MAX_PAYLOAD),
     FileBytes(1, UART_FRAME_MAX_PAYLOAD + 1)}

\* One call uart_bridge_send(type, payload, len) whose result is kept.
BridgeCall(type, payload) ==
    /\ uart' = UartBridgeSend(uart, type, payload).out
    /\ bridgeRc' = UartBridgeSend(uart, type, payload).rc

\* Direct calls are the first events of a run.
BridgeSend ==
    /\ nHost < MaxBridge
    /\ nHost' = nHost + 1
    /\ \E type \in {UART_MSG_STATUS, UART_MSG_LOG_LINE} :
          \E payload \in BridgePayloads : BridgeCall(type, payload)
    /\ UNCHANGED << shearsVars, linkVars, toShears, toBase,
                    s_logCtrlChrHandle, s_logDataChrHandle, s_pendingRequest,
                    s_pendingFilename, g_cfg, g_state, cliSess, committed,
                    finished, awaiting, cntVars, rxVars, discVars, gpsVars,
                    uartDown, arrived, uftVars, advVars, nWrites, ledVars, pcX,
                    wideVars >>

\* uart_write_bytes() starts to fail on the host serial port.
UartDriverFails ==
    /\ ~uartDown
    /\ uartDown' = TRUE
    /\ UNCHANGED << shearsVars, linkVars, toShears, toBase, baseVars, cntVars,
                    rxVars, discVars, gpsVars, bridgeRc, arrived, nHost,
                    uftVars, advVars, nWrites, ledVars, pcX,
                    wideVars >>

NextUplink == NextHost \/ BridgeSend \/ UartDriverFails

SpecUplink == Init /\ [][NextUplink]_vars

(* ---- base-fw: file transfer to the host with ACKs --------------------- *)
\* buildPacket(): [0xAA][type][len][payload][xor(type, len, payload)].
BuildPacket(type, payload) ==
    << START_BYTE, type, Len(payload) >> \o payload
    \o << XorAll(<< type, Len(payload) >> \o payload) >>

\* What uartTryReadPacket() hands back for a packet that passes its checks.
PacketType(bytes) == bytes[2]
PacketPayload(bytes) == SubSeq(bytes, 4, 3 + bytes[3])

nonUftVars == << shearsVars, linkVars, toShears, toBase, baseVars, cntVars,
                 rxVars, discVars, gpsVars, hostVars, advVars, nWrites,
                 ledVars, pcX, wideVars >>

\* transferStart() and buttonIsr(): a trigger is queued unless a transfer
\* is running or the queue is full.
UftTrigger ==
    /\ nTriggers < MaxTriggers
    /\ nTriggers' = nTriggers + 1
    /\ transferQueue' = IF ~transferBusy /\ transferQueue < QueueDepth
                        THEN transferQueue + 1 ELSE transferQueue
    /\ UNCHANGED << nonUftVars, uftFile, pcT, tAttempt, tSize, tSent, tChunk,
                    tPkt, wireTx, wireRx, transferBusy, tXfer, tAcked,
                    tCommit >>

\* transferTask(): xQueueReceive(), the busy test, transferBusy = true.
TaskReceive ==
    /\ pcT = "receive" /\ transferQueue > 0
    /\ transferQueue' = transferQueue - 1
    /\ IF transferBusy
       THEN UNCHANGED << pcT, transferBusy >>
       ELSE transferBusy' = TRUE /\ pcT' = "begin"
    /\ UNCHANGED << nonUftVars, uftFile, tAttempt, tSize, tSent, tChunk, tPkt,
                    wireTx, wireRx, tXfer, tAcked, tCommit, nTriggers >>

\* sendWithAck(type, payload, len), first attempt: the packet goes out and
\* the task waits for an ACK.
StartSend(id, payload) ==
    /\ wireTx' = Append(wireTx, [bytes |-> BuildPacket(id.type, payload),
                                 id |-> id])
    /\ tPkt' = id /\ tChunk' = payload /\ tAttempt' = 0
    /\ pcT' = "ack"

\* transferCsvFile() returns and transferTask() clears the busy lock.
EndTransfer == transferBusy' = FALSE /\ pcT' = "receive"

\* transferTask() after the lock: xQueueReset(), then transferCsvFile() up
\* to the first packet: the file is opened and sized; an empty file is
\* skipped, otherwise START carries the size.
TransferBegin ==
    /\ pcT = "begin"
    /\ transferQueue' = 0
    /\ tXfer' = tXfer + 1 /\ tAcked' = <<>> /\ tCommit' = <<>>
    /\ IF Len(uftFile) <= 0
       THEN /\ EndTransfer
            /\ UNCHANGED << tAttempt, tSize, tSent, tChunk, tPkt, wireTx >>
       ELSE /\ tSize' = Len(uftFile) /\ tSent' = 0
            /\ StartSend([x |-> tXfer + 1, type |-> TYPE_START, off |-> 0],
                         Le32(Len(uftFile)))
            /\ UNCHANGED transferBusy
    /\ UNCHANGED << nonUftVars, uftFile, wireRx, nTriggers >>

\* The head of the receive buffer is an ACK.
AckAtHead == wireRx # <<>> /\ PacketType(Head(wireRx).bytes) = TYPE_ACK

\* sent after the packet the ACK was taken for.
SentAfterAck == IF tPkt.type = TYPE_DATA THEN tSent + Len(tChunk) ELSE tSent

\* waitForAck() takes an ACK: sendWithAck() returns true and transferCsvFile()
\* goes on to the next chunk, to END, or to waitForCommit().
AckTaken ==
    /\ pcT = "ack" /\ AckAtHead
    /\ wireRx' = Tail(wireRx)
    /\ tAcked' = Append(tAcked, [pkt |-> tPkt, re |-> Head(wireRx).re])
    /\ tSent' = SentAfterAck
    /\ IF tPkt.type = TYPE_END
       THEN pcT' = "commit" /\ UNCHANGED << tAttempt, tChunk, tPkt, wireTx >>
       ELSE IF SentAfterAck < tSize
       THEN LET toRead == IF tSize - SentAfterAck < CHUNK_SIZE
                          THEN tSize - SentAfterAck ELSE CHUNK_SIZE
            IN  StartSend([x |-> tXfer, type |-> TYPE_DATA,
                           off |-> SentAfterAck],
                          SubSeq(uftFile, SentAfterAck + 1,
                                 SentAfterAck + toRead))
       ELSE StartSend([x |-> tXfer, type |-> TYPE_END, off |-> 0], <<>>)
    /\ UNCHANGED << nonUftVars, uftFile, tSize, transferBusy, transferQueue,
                    tXfer, tCommit, nTriggers >>

\* The same, but fread() returns fewer bytes than asked for.
AckTakenReadError ==
    /\ pcT = "ack" /\ AckAtHead
    /\ tPkt.type # TYPE_END /\ SentAfterAck < tSize
    /\ wireRx' = Tail(wireRx)
    /\ tAcked' = Append(tAcked, [pkt |-> tPkt, re |-> Head(wireRx).re])
    /\ tSent' = SentAfterAck
    /\ EndTransfer
    /\ UNCHANGED << nonUftVars, uftFile, tAttempt, tSize, tChunk, tPkt,
                    wireTx, transferQueue, tXfer, tCommit, nTriggers >>

\* waitForAck() and waitForCommit() read a packet they do not wait for and
\* go on waiting.
WaitDiscards ==
    /\ wireRx # <<>>
    /\ \/ pcT = "ack" /\ ~AckAtHead
       \/ /\ pcT = "commit"
          /\ ~(/\ PacketType(Head(wireRx).bytes) = TYPE_COMMIT
               /\ Len(PacketPayload(Head(wireRx).bytes)) >= 1)
    /\ wireRx' = Tail(wireRx)
    /\ UNCHANGED << nonUftVars, uftFile, pcT, tAttempt, tSize, tSent, tChunk,
                    tPkt, wireTx, transferBusy, transferQueue, tXfer, tAcked,
                    tCommit, nTriggers >>

\* waitForAck() runs out of time with nothing to read: sendWithAck() sends
\* the packet again, or gives up after MAX_RETRIES attempts.
AckTimeout ==
    /\ pcT = "ack" /\ wireRx = <<>>
    /\ IF tAttempt + 1 < MAX_RETRIES
       THEN /\ Len(wireTx) < MaxPending
            /\ wireTx' = Append(wireTx,
                                [bytes |-> BuildPacket(tPkt.type, tChunk),
                                 id |-> tPkt])
            /\ tAttempt' = tAttempt + 1
            /\ UNCHANGED << pcT, transferBusy >>
       ELSE EndTransfer /\ UNCHANGED << wireTx, tAttempt >>
    /\ UNCHANGED << nonUftVars, uftFile, tSize, tSent, tChunk, tPkt, wireRx,
                    transferQueue, tXfer, tAcked, tCommit, nTriggers >>

\* waitForCommit() takes a COMMIT: a status other than 0 ends the transfer,
\* status 0 clears the file with fopen(CSV_PATH, "wb"), which may fail.
CommitTaken ==
    /\ pcT = "commit" /\ wireRx # <<>>
    /\ PacketType(Head(wireRx).bytes) = TYPE_COMMIT
    /\ Len(PacketPayload(Head(wireRx).bytes)) >= 1
    /\ wireRx' = Tail(wireRx)
    /\ tCommit' = << [status |-> PacketPayload(Head(wireRx).bytes)[1],
                      re |-> Head(wireRx).re] >>
    /\ IF PacketPayload(Head(wireRx).bytes)[1] # 0
       THEN UNCHANGED uftFile
       ELSE \E opened \in BOOLEAN :
               uftFile' = IF opened THEN <<>> ELSE uftFile
    /\ EndTransfer
    /\ UNCHANGED << nonUftVars, tAttempt, tSize, tSent, tChunk, tPkt, wireTx,
                    transferQueue, tXfer, tAcked, nTriggers >>

\* waitForCommit() runs out of time with nothing to read.
CommitTimeout ==
    /\ pcT = "commit" /\ wireRx = <<>>
    /\ EndTransfer
    /\ UNCHANGED << nonUftVars, uftFile, tAttempt, tSize, tSent, tChunk, tPkt,
                    wireTx, wireRx, transferQueue, tXfer, tAcked, tCommit,
                    nTriggers >>

\* The host takes the next packet and answers it as UART_README.md says:
\* an ACK for every packet and, after END, a COMMIT with its verdict.
HostAnswers ==
    /\ wireTx # <<>>
    /\ wireTx' = Tail(wireTx)
    /\ \E status \in {0, 1} :
          wireRx' = wireRx
             \o << [bytes |-> BuildPacket(TYPE_ACK, <<>>),
                    re |-> Head(wireTx).id] >>
             \o IF Head(wireTx).id.type = TYPE_END
                THEN << [bytes |-> BuildPacket(TYPE_COMMIT, << status >>),
                         re |-> Head(wireTx).id] >>
                ELSE <<>>
    /\ UNCHANGED << nonUftVars, uftFile, pcT, tAttempt, tSize, tSent, tChunk,
                    tPkt, transferBusy, transferQueue, tXfer, tAcked, tCommit,
                    nTriggers >>

\* The host misses a packet.
HostMisses ==
    /\ wireTx # <<>>
    /\ wireTx' = Tail(wireTx)
    /\ UNCHANGED << nonUftVars, uftFile, pcT, tAttempt, tSize, tSent, tChunk,
                    tPkt, wireRx, transferBusy, transferQueue, tXfer, tAcked,
                    tCommit, nTriggers >>

NextUft ==
    \/ UftTrigger \/ TaskReceive \/ TransferBegin
    \/ AckTaken \/ AckTakenReadError \/ WaitDiscards \/ AckTimeout
    \/ CommitTaken \/ CommitTimeout
    \/ HostAnswers \/ HostMisses

SpecUft == Init /\ [][NextUft]_vars

(* ---- base-fw: a task calling transferStart() -------------------------- *)
\* transferStart(): if (transferBusy) return;
TransferStartTest ==
    /\ pcX = "idle" /\ nTriggers < MaxTriggers
    /\ nTriggers' = nTriggers + 1
    /\ pcX' = IF transferBusy THEN "idle" ELSE "send"
    /\ UNCHANGED << shearsVars, linkVars, toShears, toBase, baseVars, cntVars,
                    rxVars, discVars, gpsVars, hostVars, advVars, nWrites,
                    ledVars, wideVars, uftFile, pcT, tAttempt, tSize, tSent, tChunk,
                    tPkt, wireTx, wireRx, transferBusy, transferQueue, tXfer,
                    tAcked, tCommit >>

\* transferStart(): xQueueSend(transferQueue, &req, 0).
TransferStartSend ==
    /\ pcX = "send"
    /\ transferQueue' = IF transferQueue < QueueDepth
                        THEN transferQueue + 1 ELSE transferQueue
    /\ pcX' = "idle"
    /\ UNCHANGED << shearsVars, linkVars, toShears, toBase, baseVars, cntVars,
                    rxVars, discVars, gpsVars, hostVars, advVars, nWrites,
                    ledVars, wideVars, uftFile, pcT, tAttempt, tSize, tSent, tChunk,
                    tPkt, wireTx, wireRx, transferBusy, tXfer, tAcked,
                    tCommit, nTriggers >>

\* The transfer task with the button interrupt and a transferStart() caller.
NextUftCallers == NextUft \/ TransferStartTest \/ TransferStartSend

SpecUftCallers == Init /\ [][NextUftCallers]_vars

(* ---- base, SPIFFS build of the client (log_transfer_client.c) --------- *)
\* The second build of the base client stores the log in a local SPIFFS file,
\* or in a RAM buffer when the file cannot be opened.  It is driven here by
\* the notifications themselves, drawn from small sets.
MaxRx       == 4   \* notifications handed to the client in one run
MaxRxIndex  == 2   \* largest chunk index a notification carries
RxFileSize  == 2   \* the size announced by STATUS_OK

RxCtrlInputs ==
    {StatusPayload(st, RxFileSize) :
        st \in {STATUS_OK, STATUS_ERR_BUSY, STATUS_TRANSFER_DONE,
                STATUS_TRANSFER_ABORTED}}
    \cup {<< CTRL_EVT_STATUS, STATUS_OK >>}

RxDataInputs ==
    {Le16(i) \o << FileByte(i + 1) >> : i \in 0..MaxRxIndex} \cup {Le16(0)}

\* log_transfer_client_on_ctrl_notify(data, len); fopenOk and mallocOk say
\* whether fopen(GPS_LOG_FILE_PATH, "wb") and malloc(fileSize) succeed.
SpiffsOnCtrlNotify(data, fopenOk, mallocOk) ==
    LET status == data[2]
        st == g_stateSpiffs
    IN  IF Len(data) < 2 \/ data[1] # CTRL_EVT_STATUS
        THEN UNCHANGED << g_stateSpiffs, localFile >>
        ELSE IF status = STATUS_OK
        THEN IF Len(data) < 6
             THEN UNCHANGED << g_stateSpiffs, localFile >>
             ELSE LET fileSize == FromLe32(SubSeq(data, 3, 6))
                      torn == IF st.active
                              THEN [st EXCEPT !.fp = FALSE, !.buf = FALSE,
                                              !.buf_size = 0, !.ram = <<>>]
                              ELSE st
                  IN  IF fopenOk
                      THEN /\ localFile' = <<>>
                           /\ g_stateSpiffs' = [torn EXCEPT
                                 !.fp = TRUE, !.buf = FALSE, !.buf_size = 0,
                                 !.ram = <<>>, !.active = TRUE,
                                 !.expectedSize = fileSize,
                                 !.bytesReceived = 0, !.nextChunkIndex = 0]
                      ELSE IF mallocOk
                      THEN /\ g_stateSpiffs' = [torn EXCEPT
                                 !.fp = FALSE, !.buf = TRUE,
                                 !.buf_size = fileSize, !.ram = <<>>,
                                 !.active = TRUE, !.expectedSize = fileSize,
                                 !.bytesReceived = 0, !.nextChunkIndex = 0]
                           /\ UNCHANGED localFile
                      ELSE /\ g_stateSpiffs' = [torn EXCEPT
                                 !.fp = FALSE, !.buf = FALSE, !.ram = <<>>,
                                 !.active = FALSE]
                           /\ UNCHANGED localFile
        ELSE IF status = STATUS_TRANSFER_DONE
        THEN /\ g_stateSpiffs' = [st EXCEPT
                   !.fp = IF st.active THEN FALSE ELSE @, !.active = FALSE]
             /\ UNCHANGED localFile
        ELSE IF status = STATUS_TRANSFER_ABORTED
        THEN /\ g_stateSpiffs' = [st EXCEPT
                   !.fp = IF st.active THEN FALSE ELSE @,
                   !.buf = IF st.active THEN FALSE ELSE @,
                   !.buf_size = IF st.active /\ st.buf THEN 0 ELSE @,
                   !.ram = IF st.active THEN <<>> ELSE @,
                   !.active = FALSE]
             /\ UNCHANGED localFile
        ELSE UNCHANGED << g_stateSpiffs, localFile >>

\* log_transfer_client_on_data_notify(data, len): on an index mismatch the
\* expected index is set to the received one and the handler goes on.
SpiffsOnDataNotify(data) ==
    LET st == g_stateSpiffs
        chunkIndex == FromLe16(data)
        payload == SubSeq(data, 3, Len(data))
        fits == st.bytesReceived + Len(payload) <= st.buf_size
    IN  IF ~st.active \/ Len(data) < 3
        THEN UNCHANGED << g_stateSpiffs, localFile >>
        ELSE /\ localFile' = IF st.fp THEN localFile \o payload ELSE localFile
             /\ g_stateSpiffs' = [st EXCEPT
                   !.ram = IF st.buf /\ st.buf_size > 0 /\ fits
                           THEN @ \o payload ELSE @,
                   !.bytesReceived = @ + Len(payload),
                   !.nextChunkIndex = (chunkIndex + 1) % 65536]

RxCtrlNotify ==
    /\ nRx < MaxRx
    /\ \E data \in RxCtrlInputs : \E fopenOk, mallocOk \in BOOLEAN :
          SpiffsOnCtrlNotify(data, fopenOk, mallocOk)
    /\ nRx' = nRx + 1
    /\ UNCHANGED << shearsVars, linkVars, toShears, toBase, baseVars, cntVars,
                    discVars, gpsVars, extVars >>

RxDataNotify ==
    /\ nRx < MaxRx
    /\ \E data \in RxDataInputs : SpiffsOnDataNotify(data)
    /\ nRx' = nRx + 1
    /\ UNCHANGED << shearsVars, linkVars, toShears, toBase, baseVars, cntVars,
                    discVars, gpsVars, extVars >>

NextRx == RxCtrlNotify \/ RxDataNotify

SpecRx == Init /\ [][NextRx]_vars

(* ---- shears: GPS logger (gps_logger.c) -------------------------------- *)
\* uartReadTask assembles NMEA sentences and publishes the latest one;
\* saveTask consumes the save-request flag set by the button interrupt or by
\* gpsLoggerRequestSave().  The two tasks have the same priority and share
\* latestNmea and nmeaValid without a lock, so they interleave per statement.
GPS_BUF_SIZE == 32   \* size of nmea_buf and latestNmea (512 in the source)
MaxLines     == 2    \* sentences the receiver sends in one run
MaxPresses   == 2    \* save requests (button or software) in one run

LF    == 10
COMMA == 44
FILL  == 57
MinGgaTokens == 12
MaxGgaTokens == 20

\* "$GNGGA,"
Leader == << 36, 71, 78, 71, 71, 65, 44 >>
\* "$GNGGA,1,2,N,3,E,1,8,1,5,M,4\n": twelve tokens
GoodLine ==
    << 36, 71, 78, 71, 71, 65, 44, 49, 44, 50, 44, 78, 44, 51, 44, 69, 44, 49,
       44, 56, 44, 49, 44, 53, 44, 77, 44, 52, 10 >>
\* "$GNGGA,1,2\n": three tokens
ShortLine == << 36, 71, 78, 71, 71, 65, 44, 49, 44, 50, 10 >>
\* "$GNRMC,1,2,N,3,E,1,8,1,5,M,4\n": twelve tokens, another leader
OtherLine ==
    << 36, 71, 78, 82, 77, 67, 44, 49, 44, 50, 44, 78, 44, 51, 44, 69, 44, 49,
       44, 56, 44, 49, 44, 53, 44, 77, 44, 52, 10 >>
\* A GGA sentence whose last field runs on until the line no longer fits.
LongLine ==
    SubSeq(GoodLine, 1, Len(GoodLine) - 1)
    \o [i \in 1..(GPS_BUF_SIZE - Len(GoodLine) + 1) |-> FILL] \o << LF >>

GpsLines == {GoodLine, ShortLine, OtherLine, LongLine}

\* strtok(copy, ","): the tokens are the maximal runs of characters other
\* than the comma, so empty fields yield no token.
TokenStarts(str) ==
    {i \in 1..Len(str) :
        str[i] # COMMA /\ (i = 1 \/ str[i - 1] = COMMA)}

TokenEnd(str, i) ==
    CHOOSE j \in i..Len(str) :
        /\ \A k \in i..j : str[k] # COMMA
        /\ (j = Len(str) \/ str[j + 1] = COMMA)

Strtok(str) ==
    LET starts == TokenStarts(str)
        Nth(k) == CHOOSE i \in starts :
                     Cardinality({j \in starts : j < i}) = k - 1
    IN  [k \in 1..Cardinality(starts) |->
            SubSeq(str, Nth(k), TokenEnd(str, Nth(k)))]

\* The tokens[] array of storeGgaCsv(): at most 20 tokens are kept.
GgaTokens(nmea) ==
    LET all == Strtok(nmea)
    IN  IF Len(all) > MaxGgaTokens THEN SubSeq(all, 1, MaxGgaTokens) ELSE all

\* storeGgaCsv() gets past its two early returns.
Storable(nmea) ==
    /\ Len(nmea) >= Len(Leader)
    /\ SubSeq(nmea, 1, Len(Leader)) = Leader
    /\ Len(GgaTokens(nmea)) >= MinGgaTokens

\* The fields storeGgaCsv() hands to fprintf(), before numeric conversion:
\* tokens[1], [2], [3][0], [4], [5][0], [6], [7], [8], [9] and [11] of the
\* C array, which counts from 0.
GgaRow(nmea) ==
    LET t == GgaTokens(nmea)
    IN  << t[2], t[3], t[4][1], t[5], t[6][1], t[7], t[8], t[9], t[10], t[12] >>

\* The GPS receiver sends one more sentence.
GpsSends ==
    /\ gpsRx = <<>> /\ nLines < MaxLines
    /\ \E line \in GpsLines : gpsRx' = line
    /\ nLines' = nLines + 1
    /\ UNCHANGED << latestNmea, nmeaValid, saveRequestedFlag, nmea_buf, pcU,
                    pcS, gpsRows, overflow, sLine, nClears, cycleRows,
                    nPresses, xferVars >>

\* uartReadTask, one turn of the for loop up to the test for '\n'.
UartByte ==
    /\ pcU = "byte" /\ gpsRx # <<>>
    /\ gpsRx' = Tail(gpsRx)
    /\ IF Len(nmea_buf) < GPS_BUF_SIZE - 1
       THEN nmea_buf' = Append(nmea_buf, Head(gpsRx)) /\ UNCHANGED overflow
       ELSE overflow' = TRUE /\ UNCHANGED nmea_buf
    /\ pcU' = IF Head(gpsRx) = LF THEN "copy" ELSE "byte"
    /\ UNCHANGED << latestNmea, nmeaValid, saveRequestedFlag, pcS, gpsRows,
                    sLine, nClears, cycleRows, nLines, nPresses, xferVars >>

\* nmea_buf[nmea_len] = '\0'; strncpy(latestNmea, nmea_buf, GPS_BUF_SIZE);
UartCopy ==
    /\ pcU = "copy"
    /\ latestNmea' = nmea_buf
    /\ pcU' = "valid"
    /\ UNCHANGED << nmeaValid, saveRequestedFlag, nmea_buf, pcS, gpsRx,
                    gpsRows, overflow, sLine, nClears, cycleRows, nLines,
                    nPresses, xferVars >>

\* nmeaValid = true; nmea_len = 0;
UartValid ==
    /\ pcU = "valid"
    /\ nmeaValid' = TRUE
    /\ nmea_buf' = <<>>
    /\ overflow' = FALSE
    /\ pcU' = "byte"
    /\ UNCHANGED << latestNmea, saveRequestedFlag, pcS, gpsRx, gpsRows, sLine,
                    nClears, cycleRows, nLines, nPresses, xferVars >>

\* buttonIsrHandler(): the interrupt may come between any two statements.
ButtonIsr ==
    /\ nPresses < MaxPresses
    /\ nPresses' = nPresses + 1
    /\ saveRequestedFlag' = TRUE
    /\ UNCHANGED << latestNmea, nmeaValid, nmea_buf, pcU, pcS, gpsRx, gpsRows,
                    overflow, sLine, nClears, cycleRows, nLines, xferVars >>

\* gpsLoggerRequestSave(): the software entry sets the flag only over a
\* valid line; otherwise it logs a warning and changes nothing.
GpsLoggerRequestSave ==
    /\ nPresses < MaxPresses
    /\ nmeaValid
    /\ nPresses' = nPresses + 1
    /\ saveRequestedFlag' = TRUE
    /\ UNCHANGED << latestNmea, nmeaValid, nmea_buf, pcU, pcS, gpsRx, gpsRows,
                    overflow, sLine, nClears, cycleRows, nLines, xferVars >>

\* A worker that goes on without clearing the flag.
SaveTaskTestNoClear ==
    /\ pcS = "test" /\ saveRequestedFlag
    /\ pcS' = "valid"
    /\ UNCHANGED << latestNmea, nmeaValid, saveRequestedFlag, nmea_buf, pcU,
                    gpsRx, gpsRows, overflow, sLine, nClears, cycleRows,
                    nLines, nPresses, xferVars >>

\* saveTask: if (saveRequestedFlag)
SaveTaskTest ==
    /\ pcS = "test" /\ saveRequestedFlag
    /\ pcS' = "clear"
    /\ UNCHANGED << latestNmea, nmeaValid, saveRequestedFlag, nmea_buf, pcU,
                    gpsRx, gpsRows, overflow, sLine, nClears, cycleRows,
                    nLines, nPresses, xferVars >>

\* saveRequestedFlag = false;
SaveTaskClear ==
    /\ pcS = "clear"
    /\ saveRequestedFlag' = FALSE
    /\ nClears' = nClears + 1
    /\ cycleRows' = 0
    /\ pcS' = "valid"
    /\ UNCHANGED << latestNmea, nmeaValid, nmea_buf, pcU, gpsRx, gpsRows,
                    overflow, sLine, nLines, nPresses, xferVars >>

\* if (nmeaValid) ... else warn
SaveTaskValid ==
    /\ pcS = "valid"
    /\ pcS' = IF nmeaValid THEN "store" ELSE "test"
    /\ UNCHANGED << latestNmea, nmeaValid, saveRequestedFlag, nmea_buf, pcU,
                    gpsRx, gpsRows, overflow, sLine, nClears, cycleRows,
                    nLines, nPresses, xferVars >>

\* storeGgaCsv(latestNmea): one row is appended when the line has the leader
\* and twelve tokens and the file opens for append.
SaveTaskStore ==
    /\ pcS = "store"
    /\ sLine' = latestNmea
    /\ \E fopenOk \in BOOLEAN :
          IF Storable(latestNmea) /\ fopenOk
          THEN /\ gpsRows' = Append(gpsRows, GgaRow(latestNmea))
               /\ cycleRows' = cycleRows + 1
          ELSE UNCHANGED << gpsRows, cycleRows >>
    /\ pcS' = "invalidate"
    /\ UNCHANGED << latestNmea, nmeaValid, saveRequestedFlag, nmea_buf, pcU,
                    gpsRx, overflow, nClears, nLines, nPresses, xferVars >>

\* nmeaValid = false;
SaveTaskInvalidate ==
    /\ pcS = "invalidate"
    /\ nmeaValid' = FALSE
    /\ pcS' = "memset"
    /\ UNCHANGED << latestNmea, saveRequestedFlag, nmea_buf, pcU, gpsRx,
                    gpsRows, overflow, sLine, nClears, cycleRows, nLines,
                    nPresses, xferVars >>

\* memset(latestNmea, 0, sizeof(latestNmea)); printCsvFile();
SaveTaskMemset ==
    /\ pcS = "memset"
    /\ latestNmea' = <<>>
    /\ pcS' = "test"
    /\ UNCHANGED << nmeaValid, saveRequestedFlag, nmea_buf, pcU, gpsRx,
                    gpsRows, overflow, sLine, nClears, cycleRows, nLines,
                    nPresses, xferVars >>

UartReadTask == UartByte \/ UartCopy \/ UartValid

SaveTask ==
    \/ SaveTaskTest \/ SaveTaskClear \/ SaveTaskValid \/ SaveTaskStore
    \/ SaveTaskInvalidate \/ SaveTaskMemset

NextGps ==
    GpsSends \/ UartReadTask \/ ButtonIsr \/ GpsLoggerRequestSave \/ SaveTask

SpecGps == Init /\ [][NextGps]_vars

\* "$GPGGA,1,2,N,3,E,1,8,1,5,M,4\n": twelve tokens, the GPS-only talker.
GpLine ==
    << 36, 71, 80, 71, 71, 65, 44, 49, 44, 50, 44, 78, 44, 51, 44, 69, 44, 49,
       44, 56, 44, 49, 44, 53, 44, 77, 44, 52, 10 >>

\* The receiver sends a sentence with the $GPGGA leader.
GpsSendsGp ==
    /\ gpsRx = <<>> /\ nLines < MaxLines
    /\ gpsRx' = GpLine
    /\ nLines' = nLines + 1
    /\ UNCHANGED << latestNmea, nmeaValid, saveRequestedFlag, nmea_buf, pcU,
                    pcS, gpsRows, overflow, sLine, nClears, cycleRows,
                    nPresses, xferVars >>

NextGpsTalkers == NextGps \/ GpsSendsGp

SpecGpsTalkers == Init /\ [][NextGpsTalkers]_vars

(* ---- shears: advertising (shears_ble.c) ------------------------------- *)
MaxGap == 7   \* GAP events the shears' handler takes in one run

\* startAdvertising(): ble_gap_adv_set_fields() failing returns before
\* ble_gap_adv_start() is called; ble_gap_adv_start() failing is logged.
\* Neither failure is retried.  The result is whether the controller
\* advertises afterwards.
StartAdvertising(was, fieldsOk, startOk) ==
    IF ~fieldsOk THEN was
    ELSE IF ~startOk THEN was
    ELSE TRUE

GapLogged(ev) == Append(gapLog, [ev |-> ev, adv |-> advertising'])

\* onSync(): without an address type nothing is advertised.
OnSync ==
    /\ ~synced
    /\ synced' = TRUE
    /\ gapConn' = gapConn
    /\ \E addrOk, fieldsOk, startOk \in BOOLEAN :
          advertising' = IF addrOk
                         THEN StartAdvertising(advertising, fieldsOk, startOk)
                         ELSE advertising
    /\ gapLog' = GapLogged("sync")
    /\ UNCHANGED << nonAdvVars >>

\* BLE_GAP_EVENT_CONNECT with status 0: the controller stopped advertising
\* when the central connected; connCallback(true).
GapConnectOk ==
    /\ synced /\ advertising /\ ~gapConn /\ Len(gapLog) < MaxGap
    /\ gapConn' = TRUE
    /\ advertising' = FALSE
    /\ gapLog' = GapLogged("connect")
    /\ UNCHANGED << synced, nonAdvVars >>

\* BLE_GAP_EVENT_CONNECT with a status other than 0: connCallback(false),
\* startAdvertising().
GapConnectFailed ==
    /\ synced /\ advertising /\ ~gapConn /\ Len(gapLog) < MaxGap
    /\ gapConn' = FALSE
    /\ \E fieldsOk, startOk \in BOOLEAN :
          advertising' = StartAdvertising(FALSE, fieldsOk, startOk)
    /\ gapLog' = GapLogged("connect_failed")
    /\ UNCHANGED << synced, nonAdvVars >>

\* BLE_GAP_EVENT_DISCONNECT: connCallback(false), startAdvertising().
GapDisconnect ==
    /\ synced /\ gapConn /\ Len(gapLog) < MaxGap
    /\ gapConn' = FALSE
    /\ \E fieldsOk, startOk \in BOOLEAN :
          advertising' = StartAdvertising(FALSE, fieldsOk, startOk)
    /\ gapLog' = GapLogged("disconnect")
    /\ UNCHANGED << synced, nonAdvVars >>

\* Every other GAP event (subscribe, MTU, ...): default, nothing is done.
GapOther ==
    /\ synced /\ gapConn /\ Len(gapLog) < MaxGap
    /\ UNCHANGED << synced, advertising, gapConn, nonAdvVars >>
    /\ gapLog' = GapLogged("other")

NextAdv ==
    \/ OnSync \/ GapConnectOk \/ GapConnectFailed \/ GapDisconnect
    \/ GapOther

SpecAdv == Init /\ [][NextAdv]_vars

(* ---- shears: the status LED (shears_led.c) ---------------------------- *)
MaxCalls == 4   \* connection changes reported to the LED in one run

nonLedVars == << shearsVars, linkVars, toShears, toBase, baseVars, cntVars,
                 rxVars, discVars, gpsVars, hostVars, uftVars, advVars,
                 nWrites, pcX, wideVars >>

\* app_main(): shearsLedInit() has run; shearsLedSetBlinking(true).
AppMainBlink ==
    /\ pcC = "boot"
    /\ ledBlinking' = TRUE
    /\ pcC' = "idle"
    /\ UNCHANGED << ledLevel, pcL, solidOn, nCalls, nonLedVars >>

\* bleConnChanged(true): shearsLedSetSolidOn(), ledBlinking = false.
SolidOnFlag ==
    /\ pcC = "idle" /\ nCalls < MaxCalls
    /\ nCalls' = nCalls + 1
    /\ ledBlinking' = FALSE
    /\ pcC' = "solid_level"
    /\ UNCHANGED << ledLevel, pcL, solidOn, nonLedVars >>

\* shearsLedSetSolidOn(): gpio_set_level(1), and the return.
SolidOnLevel ==
    /\ pcC = "solid_level"
    /\ ledLevel' = 1
    /\ solidOn' = TRUE
    /\ pcC' = "idle"
    /\ UNCHANGED << ledBlinking, pcL, nCalls, nonLedVars >>

\* bleConnChanged(false): shearsLedSetOff(), ledBlinking = false.
OffFlag ==
    /\ pcC = "idle" /\ nCalls < MaxCalls
    /\ nCalls' = nCalls + 1
    /\ solidOn' = FALSE
    /\ ledBlinking' = FALSE
    /\ pcC' = "off_level"
    /\ UNCHANGED << ledLevel, pcL, nonLedVars >>

\* shearsLedSetOff(): gpio_set_level(0).
OffLevel ==
    /\ pcC = "off_level"
    /\ ledLevel' = 0
    /\ pcC' = "blink"
    /\ UNCHANGED << ledBlinking, pcL, solidOn, nCalls, nonLedVars >>

\* bleConnChanged(false): shearsLedSetBlinking(true).
BlinkAgain ==
    /\ pcC = "blink"
    /\ ledBlinking' = TRUE
    /\ pcC' = "idle"
    /\ UNCHANGED << ledLevel, pcL, solidOn, nCalls, nonLedVars >>

\* ledTask: if (ledBlinking), else the 50 ms delay.
LedTest ==
    /\ pcL = "test"
    /\ ledBlinking
    /\ pcL' = "on"
    /\ UNCHANGED << ledBlinking, ledLevel, pcC, solidOn, nCalls, nonLedVars >>

\* gpio_set_level(1) and the 100 ms delay.
LedOn ==
    /\ pcL = "on"
    /\ ledLevel' = 1
    /\ pcL' = "recheck"
    /\ UNCHANGED << ledBlinking, pcC, solidOn, nCalls, nonLedVars >>

\* if (!ledBlinking) continue;
LedRecheck ==
    /\ pcL = "recheck"
    /\ pcL' = IF ~ledBlinking THEN "test" ELSE "off"
    /\ UNCHANGED << ledBlinking, ledLevel, pcC, solidOn, nCalls, nonLedVars >>

\* gpio_set_level(0) and the 100 ms delay.
LedOff ==
    /\ pcL = "off"
    /\ ledLevel' = 0
    /\ pcL' = "test"
    /\ UNCHANGED << ledBlinking, pcC, solidOn, nCalls, nonLedVars >>

NextLed ==
    \/ AppMainBlink \/ SolidOnFlag \/ SolidOnLevel \/ OffFlag \/ OffLevel
    \/ BlinkAgain \/ LedTest \/ LedOn \/ LedRecheck \/ LedOff

SpecLed == Init /\ [][NextLed]_vars

(* ---- shears: a long transfer, the counters at their C widths ---------- *)
IndexSpace   == 65536   \* values of the uint16_t chunk_index
MaxWideSteps == 6       \* steps of the emitter in one run

\* Sizes ftell() can report: a short file, the largest file whose chunks at
\* the default MTU have an index each, and that file with one more byte.
WideSizes ==
    {InitLen,
     IndexSpace * ChunkSizeFor(BLE_ATT_MTU_DFLT),
     IndexSpace * ChunkSizeFor(BLE_ATT_MTU_DFLT) + 1}

\* Iterations of the emitter's loop taken in one step.
Strides == {1, 255, 32768}

nonWideVars == << shearsVars, linkVars, toShears, toBase, baseVars, cntVars,
                  rxVars, discVars, gpsVars, hostVars, uftVars, advVars,
                  nWrites, ledVars, pcX >>

\* handle_start_transfer() from ftell() on: no test of the size against the
\* chunk size; file_size = (uint32_t)size, bytes_sent = 0, chunk_index = 0.
\* The sizes here are far below 2^32, so the two 32-bit counters never wrap.
WideStart ==
    /\ ~wideXfer.active /\ wideSteps < MaxWideSteps
    /\ wideSteps' = wideSteps + 1
    /\ \E size \in WideSizes, mtu \in {BLE_ATT_MTU_DFLT, PreferredMtu} :
          wideXfer' = [active |-> TRUE, file_size |-> size,
                       bytes_sent |-> 0, chunk_index |-> 0,
                       chunk_size |-> ChunkSizeFor(mtu)]
    /\ wideChunks' = 0
    /\ UNCHANGED nonWideVars

\* log_transfer_task, m iterations of its loop with no control write in
\* between: m - 1 full reads and a read of n > 0 bytes, each notified and
\* counted (bytes_sent += n, chunk_index++); a short read ends the session.
WideEmit ==
    /\ wideXfer.active /\ wideSteps < MaxWideSteps
    /\ wideSteps' = wideSteps + 1
    /\ \E m \in Strides :
          LET before == wideXfer.bytes_sent + (m - 1) * wideXfer.chunk_size
              n == Min(wideXfer.chunk_size, wideXfer.file_size - before)
          IN  /\ before < wideXfer.file_size
              /\ wideXfer' = [wideXfer EXCEPT
                    !.bytes_sent = before + n,
                    !.chunk_index = (@ + m) % IndexSpace,
                    !.active = ~(n < wideXfer.chunk_size)]
              /\ wideChunks' = wideChunks + m
    /\ UNCHANGED nonWideVars

\* The read at the end of a file that is a whole number of chunks: n = 0.
WideEof ==
    /\ wideXfer.active /\ wideSteps < MaxWideSteps
    /\ wideXfer.bytes_sent = wideXfer.file_size
    /\ wideSteps' = wideSteps + 1
    /\ wideXfer' = [wideXfer EXCEPT !.active = FALSE]
    /\ UNCHANGED << wideChunks, nonWideVars >>

NextWide == WideStart \/ WideEmit \/ WideEof

SpecWide == Init /\ [][NextWide]_vars

(* ---- observations used by the properties ------------------------------ *)
\* The step hands one more notification to the stack.
Emitted == Len(srvOut') = Len(srvOut) + 1
LastOut == srvOut'[Len(srvOut')]
ChunkEmitted == Emitted /\ LastOut.kind = "chunk"
StatusEmitted(status) ==
    Emitted /\ LastOut.kind = "status" /\ LastOut.val = status

IsStatus(e, status) == e.kind = "status" /\ e.val = status

\* The control notification at the head of the queue carries this status.
HeadIsStatus(statuses) ==
    /\ toBase # <<>>
    /\ Len(Head(toBase).data) >= 2
    /\ Head(toBase).data[1] = CTRL_EVT_STATUS
    /\ Head(toBase).data[2] \in statuses

\* The session fields a rejected START_TRANSFER has to leave alone.
SessionFields(x) ==
    << x.conn_handle, x.chunk_size, x.fp, x.chunk_index, x.bytes_sent >>

(* ---- C1 --------------------------------------------------------------- *)
\* C1: every transfer the client ended on STATUS_TRANSFER_DONE committed
\* exactly the bytes the shears read from the file in that session, in order
\* (compared once the shears have left the session).
SessionOver(sess) ==
    sess < sessId \/ (~g_log_xfer.active /\ pcE \in {"check", "done"})

C1_DoneTransfersCarryTheFile ==
    \A i \in 1..Len(finished) :
        SessionOver(finished[i].sess)
            => finished[i].bytes = sessReads[finished[i].sess]

(* ---- C2 --------------------------------------------------------------- *)
\* C2: a START_TRANSFER handled while a session is active leaves the session's
\* connection handle, chunk size, file, chunk index and byte count unchanged.
C2_BusyStartLeavesSession ==
    [][(g_log_xfer.active /\ (HStartConn \/ HStartMtu \/ HStartBusy))
          => SessionFields(g_log_xfer') = SessionFields(g_log_xfer)]_vars

(* ---- C3 --------------------------------------------------------------- *)
\* C3: when the link is lost the shears have no active session and no open
\* file any more.
C3_LinkLossResetsServer ==
    [][(linkUp /\ ~linkUp')
          => (~g_log_xfer'.active /\ g_log_xfer'.fp = NULL)]_vars

(* ---- C4 --------------------------------------------------------------- *)
\* C4: every chunk handed to the stack is preceded by the STATUS_OK of the
\* session it is emitted in, whatever the interleaving of handler and emitter.
C4_AcceptedBeforeChunks ==
    \A j \in 1..Len(srvOut) :
        srvOut[j].kind = "chunk" =>
            \E i \in 1..(j - 1) :
                IsStatus(srvOut[i], STATUS_OK) /\ srvOut[i].sess = srvOut[j].sess

(* ---- C5 --------------------------------------------------------------- *)
\* C5: STATUS_TRANSFER_DONE goes out only when the session's file is closed
\* and no chunk of the session follows it.
C5_DoneAfterLastChunkAndClose ==
    /\ [][StatusEmitted(STATUS_TRANSFER_DONE) => g_log_xfer.fp = NULL]_vars
    /\ [](\A i \in 1..Len(srvOut) : \A j \in (i + 1)..Len(srvOut) :
             (IsStatus(srvOut[i], STATUS_TRANSFER_DONE)
              /\ srvOut[j].kind = "chunk")
                => srvOut[i].sess # srvOut[j].sess)

(* ---- C6 --------------------------------------------------------------- *)
\* C6: a chunk is handed to the stack only while a session is active.
C6_NoChunkWhileIdle ==
    [][ChunkEmitted => g_log_xfer.active]_vars

(* ---- C7 --------------------------------------------------------------- *)
\* C7: in a session that handle_start_transfer() has finished setting up,
\* bytes_sent never exceeds the file_size taken at the start of the session,
\* also when a row is appended to the file meanwhile.
C7_BytesSentWithinFileSize ==
    (g_log_xfer.active /\ pcH = "idle")
        => g_log_xfer.bytes_sent <= g_log_xfer.file_size

(* ---- C8 --------------------------------------------------------------- *)
\* C8: the chunks emitted in one session carry the indices 0, 1, 2, ... in
\* this order, none skipped and none repeated.
ChunksOf(sess) ==
    SelectSeq(srvOut, LAMBDA e : e.kind = "chunk" /\ e.sess = sess)

C8_ChunkIndicesCountFromZero ==
    \A sess \in 1..sessId :
        \A k \in 1..Len(ChunksOf(sess)) : ChunksOf(sess)[k].val = k - 1

(* ---- C9 --------------------------------------------------------------- *)
\* C9: an error status (NO_FILE, FS, BUSY, ABORTED) taken by the client leaves
\* it with the active flag cleared and exactly one more transfer-error frame
\* on the UART.
C9_ErrorStatusEndsReception ==
    [][(HeadIsStatus(ErrorStatuses) /\ BaseCtrlNotify)
          => /\ ~g_state'.active
             /\ uart' = UartSendStatus(uart, UART_STATUS_TRANSFER_ERROR)]_vars

(* ---- C10 -------------------------------------------------------------- *)
\* C10: a STATUS_OK taken by the client creates a reception only when a
\* START_TRANSFER of its own is unanswered and no reception is running;
\* otherwise it changes nothing of the reception.
C10_OkOnlyForAwaitedStart ==
    [][(HeadIsStatus({STATUS_OK}) /\ BaseCtrlNotify
        /\ (g_state.active \/ awaiting = 0))
          => (g_state' = g_state /\ uart' = uart)]_vars

(* ---- C11 -------------------------------------------------------------- *)
\* The frames a step added to the UART (send() only ever appends).
NewFrames == SubSeq(uart', Len(uart) + 1, Len(uart'))

\* A status frame reporting the end of a transfer.
IsTransferEnd(f) ==
    \/ f = Frame(UART_MSG_STATUS, << UART_STATUS_TRANSFER_DONE >>)
    \/ f = Frame(UART_MSG_STATUS, << UART_STATUS_TRANSFER_ERROR >>)

\* C11: when the link is lost during a reception the client clears its active
\* flag and puts no transfer-done or transfer-error frame on the UART.
C11_LinkLossEndsReception ==
    [][(linkUp /\ ~linkUp' /\ g_state.active)
          => /\ ~g_state'.active
             /\ \A k \in 1..Len(NewFrames) : ~IsTransferEnd(NewFrames[k])]_vars

(* ---- C12 -------------------------------------------------------------- *)
\* What the SPIFFS build has stored of the transfer.
SpiffsStored(st, file) == << file, st.ram, st.bytesReceived >>

\* C12: a chunk whose index differs from the expected one is never committed:
\* the stored bytes and the byte count stay as they were (the build that
\* realigns may change the expected index).
C12_MismatchedChunkNotCommitted ==
    [][\A data \in RxDataInputs :
          (/\ Len(data) >= 3
           /\ FromLe16(data) # g_stateSpiffs.nextChunkIndex
           /\ SpiffsOnDataNotify(data))
             => SpiffsStored(g_stateSpiffs', localFile')
                  = SpiffsStored(g_stateSpiffs, localFile)]_vars

(* ---- C13 -------------------------------------------------------------- *)
\* The chunks forwarded to the host since the last transfer-start frame.
IsTransferStart(f) == f = Frame(UART_MSG_STATUS, << UART_STATUS_TRANSFER_START >>)

LastStart(stream) ==
    LET starts == {k \in 1..Len(stream) : IsTransferStart(stream[k])}
    IN  IF starts = {} THEN 0
        ELSE CHOOSE k \in starts : \A j \in starts : j <= k

CommittedChunks(stream) ==
    Cardinality({k \in (LastStart(stream) + 1)..Len(stream) :
                    stream[k][2] = UART_MSG_LOG_LINE})

\* C13: when a status other than STATUS_OK is taken during a reception, the
\* client's next expected chunk index (a 16-bit counter) equals the number of
\* chunks it forwarded in this reception.
C13_NextIndexCountsCommitted ==
    [][(g_state.active /\ HeadIsStatus(ErrorStatuses \cup {STATUS_TRANSFER_DONE})
        /\ BaseCtrlNotify)
          => g_state'.nextChunkIndex = CommittedChunks(uart') % 65536]_vars

\* A reception that ended on STATUS_TRANSFER_DONE after two committed chunks.
C13_Witness ==
    /\ ~g_state.active /\ g_state.nextChunkIndex = 2
    /\ finished # <<>> /\ CommittedChunks(uart) = 2

(* ---- C14 -------------------------------------------------------------- *)
\* The step forwards a chunk to the host or counts its bytes.
IsLogLine(f) == f[2] = UART_MSG_LOG_LINE

ChunkCommitted ==
    \/ \E k \in 1..Len(NewFrames) : IsLogLine(NewFrames[k])
    \/ g_state'.bytesReceived > g_state.bytesReceived

\* C14: the client commits a chunk only while its active flag is set.
C14_CommitOnlyWhileActive ==
    [][ChunkCommitted => g_state.active]_vars

\* Chunk 0 reached the client over the first connection, which never dropped,
\* and was not committed although the expected index was 0: the client was
\* not active when it came.
C14_Witness ==
    /\ linkUp /\ nConnects = 1 /\ toBase = <<>>
    /\ \E i \in 1..Len(srvOut) : srvOut[i].kind = "chunk" /\ srvOut[i].val = 0
    /\ \A k \in 1..Len(uart) : ~IsLogLine(uart[k])
    /\ g_state.nextChunkIndex = 0 /\ g_state.bytesReceived = 0

(* ---- C15 -------------------------------------------------------------- *)
\* C15: when discovery completes after one or more bleBaseRequestLog() calls,
\* exactly one START_TRANSFER is written, it names the file of the latest
\* call, and the pending flag is clear afterwards.
C15_DiscoveryIssuesLatestRequest ==
    [][(DiscoveryDone /\ lastRequested # "")
          => /\ toShears' = Append(toShears,
                                   StartWrite(lastRequested, linkHandle))
             /\ ~s_pendingRequest']_vars

(* ---- C16 -------------------------------------------------------------- *)
\* C16: at most one row is appended per set-to-clear cycle of the
\* save-request flag: never more than one row since the flag was last
\* cleared, and never more rows than clears, however often the flag is set.
C16_OneRowPerCycle ==
    cycleRows <= 1 /\ Len(gpsRows) <= nClears

\* The flag was set twice, cleared once, and one row was appended.
C16_Witness ==
    /\ nPresses = 2 /\ nClears = 1 /\ ~saveRequestedFlag
    /\ Len(gpsRows) = 1 /\ pcS = "test"

(* ---- C17 -------------------------------------------------------------- *)
\* C17: whenever saveTask finds the validity bit set, the latest-line slot
\* holds a line: the bit is never set over an empty or cleared slot, under
\* every interleaving of the two tasks.
C17_ValidSlotHoldsLine ==
    [][(SaveTaskValid /\ nmeaValid) => latestNmea # <<>>]_vars

(* ---- C18 -------------------------------------------------------------- *)
\* C18: a line that overflowed the assembly buffer is discarded: uartReadTask
\* copies no part of it into the latest-line slot and does not mark it valid.
C18_OverlongLineDiscarded ==
    [][(overflow /\ (UartCopy \/ UartValid))
          => (latestNmea' = latestNmea /\ nmeaValid' = nmeaValid)]_vars

(* ---- C19 -------------------------------------------------------------- *)
\* C19: a save request over a line with another leader or with fewer than
\* twelve tokens appends no row and leaves the latest-line slot and the
\* validity bit as they were.
C19_MalformedLineChangesNothing ==
    [][(~Storable(sLine') /\ (SaveTaskStore \/ SaveTaskInvalidate
                              \/ SaveTaskMemset))
          => /\ gpsRows' = gpsRows
             /\ latestNmea' = latestNmea
             /\ nmeaValid' = nmeaValid]_vars

(* ---- C20 -------------------------------------------------------------- *)
\* C20: when the MTU leaves no room for a chunk payload, handle_start_transfer
\* answers STATUS_ERR_FS (whenever a notification can go out), returns without
\* opening a file, and an idle server stays idle.
C20_NoPayloadRejected ==
    [][(HStartMtu /\ linkMtu <= 5)
          => /\ pcH' = "idle"
             /\ \A slot \in 1..MaxFiles : files'[slot].open => files[slot].open
             /\ NotifyOk(g_log_xfer.conn_handle)
                   => StatusEmitted(STATUS_ERR_FS)
             /\ ~g_log_xfer.active
                   => (~g_log_xfer'.active /\ g_log_xfer'.fp = NULL)]_vars

\* The server has answered a START_TRANSFER with STATUS_ERR_FS over a link
\* whose MTU leaves no payload, and is idle with no file open.
C20_Witness ==
    /\ linkUp /\ linkMtu <= 5 /\ pcH = "idle"
    /\ srvOut # <<>> /\ IsStatus(srvOut[Len(srvOut)], STATUS_ERR_FS)
    /\ ~g_log_xfer.active /\ g_log_xfer.fp = NULL
    /\ \A slot \in 1..MaxFiles : ~files[slot].open

(* ---- C21 -------------------------------------------------------------- *)
\* C21: a START_TRANSFER whose basename has 48 bytes is not answered
\* STATUS_ERR_FS (it is not rejected for its length), and one whose basename
\* has 49 bytes is answered STATUS_ERR_FS.
C21_NameLengthLimit ==
    [][(HStartOpen /\ NotifyOk(g_log_xfer.conn_handle))
          => /\ Len(hReq.name) = MaxBasename
                   => ~StatusEmitted(STATUS_ERR_FS)
             /\ Len(hReq.name) = MaxBasename + 1
                   => StatusEmitted(STATUS_ERR_FS)]_vars

(* ---- C22 -------------------------------------------------------------- *)
\* What the shears handed to the stack in one session.
OutOf(out, sess) == SelectSeq(out, LAMBDA e : e.sess = sess)

CeilDiv(a, b) == (a + b - 1) \div b

\* C22: when STATUS_TRANSFER_DONE goes out, the session has emitted
\* STATUS_OK, then exactly ceil(S/P) chunks and no other notification, then
\* this status, and the chunks carry S bytes in all (S the file size taken at
\* the start, P the chunk payload size).
C22_ChunkCountMatchesSize ==
    [][StatusEmitted(STATUS_TRANSFER_DONE)
          => LET o == OutOf(srvOut', sessId)
                 n == CeilDiv(g_log_xfer.file_size, g_log_xfer.chunk_size)
             IN  /\ Len(o) = n + 2
                 /\ IsStatus(o[1], STATUS_OK)
                 /\ \A k \in 2..(n + 1) : o[k].kind = "chunk"
                 /\ Len(sessReads[sessId]) = g_log_xfer.file_size]_vars

(* ---- C23 -------------------------------------------------------------- *)
\* C23: while a session is active (and no START_TRANSFER is being handled)
\* its chunk payload size lies in 1..160 and, when its connection is the live
\* link, is at most that link's maximum attribute size (MTU - 3) minus 2.
C23_ChunkSizeWithinLink ==
    (g_log_xfer.active /\ pcH = "idle")
        => /\ g_log_xfer.chunk_size \in 1..MaxChunkPayload
           /\ (linkUp /\ g_log_xfer.conn_handle = linkHandle
                /\ linkMtu >= BLE_ATT_MTU_DFLT)
                 => g_log_xfer.chunk_size <= MaxNotif(linkMtu) - 2

(* ---- C24 -------------------------------------------------------------- *)
\* What reached the client since the last STATUS_OK is chunk 0, 1, 2, ... in
\* that order, each with a payload, and nothing else.
ArrivedInOrder ==
    \A k \in 1..Len(arrived) :
        /\ arrived[k].attr = DataValHandle
        /\ Len(arrived[k].data) >= 3
        /\ FromLe16(arrived[k].data) = k - 1

DoneNotification ==
    [attr |-> CtrlValHandle, sess |-> 0,
     data |-> StatusPayload(STATUS_TRANSFER_DONE, 0)]

\* What the host should have seen of such a transfer.
InOrderFrames ==
    << Frame(UART_MSG_STATUS, << UART_STATUS_TRANSFER_START >>) >>
    \o [k \in 1..Len(arrived) |->
          Frame(UART_MSG_LOG_LINE,
                SubSeq(arrived[k].data, 3, Len(arrived[k].data)))]
    \o << Frame(UART_MSG_STATUS, << UART_STATUS_TRANSFER_DONE >>) >>

\* C24: when STATUS_TRANSFER_DONE is taken in a reception whose chunks all
\* arrived in order, the host has seen since the transfer-start frame exactly
\* that frame, one log-line frame per chunk with the chunk's payload, in
\* chunk order, and the transfer-done frame.
C24_InOrderTransferOnUart ==
    [][(g_state.active /\ ArrivedInOrder /\ OnCtrlNotify(DoneNotification))
          => SubSeq(uart', LastStart(uart'), Len(uart')) = InOrderFrames]_vars

\* An empty file and then a file of one chunk were received, each in order.
C24_Witness ==
    /\ ~g_state.active /\ g_state.nextChunkIndex = 1
    /\ Len(arrived) = 2 /\ arrived[2].attr = CtrlValHandle
    /\ Len(uart) = 5
    /\ IsTransferStart(uart[1]) /\ IsTransferEnd(uart[2])
    /\ IsTransferStart(uart[3])
    /\ uart[4] = Frame(UART_MSG_LOG_LINE, << FileByte(1) >>)
    /\ uart[5] = Frame(UART_MSG_STATUS, << UART_STATUS_TRANSFER_DONE >>)

(* ---- C25 -------------------------------------------------------------- *)
DataNotification(data) == [attr |-> DataValHandle, sess |-> 0, data |-> data]

\* C25: while the client expects chunk 2, a chunk with index 3 changes
\* neither its reception state nor the UART, and a chunk with index 2 is
\* forwarded as a log-line frame and moves the expected index to 3.
C25_StrictDropsThenCommits ==
    [][\A data \in HostDataInputs :
          (/\ g_state.active /\ g_state.nextChunkIndex = 2
           /\ Len(data) >= 3
           /\ OnDataNotify(DataNotification(data)))
             => /\ FromLe16(data) = 3
                     => (g_state' = g_state /\ uart' = uart)
                /\ FromLe16(data) = 2
                     => /\ g_state'.nextChunkIndex = 3
                        /\ g_state'.bytesReceived
                             = g_state.bytesReceived + Len(data) - 2
                        /\ NewFrames
                             = << Frame(UART_MSG_LOG_LINE,
                                        SubSeq(data, 3, Len(data))) >>]_vars

\* Chunks 0, 1, 3, 2 arrived in that order: three were committed.
C25_Witness ==
    /\ g_state.active /\ g_state.nextChunkIndex = 3
    /\ Len(arrived) = 4
    /\ \A k \in 1..4 : arrived[k].attr = DataValHandle
    /\ << FromLe16(arrived[1].data), FromLe16(arrived[2].data),
          FromLe16(arrived[3].data), FromLe16(arrived[4].data) >>
         = << 0, 1, 3, 2 >>
    /\ CommittedChunks(uart) = 3

(* ---- C26 -------------------------------------------------------------- *)
\* The client counted a chunk in this step.
ChunkCounted ==
    /\ g_state.active /\ g_state'.active
    /\ g_state'.bytesReceived > g_state.bytesReceived
    /\ g_state'.nextChunkIndex = g_state.nextChunkIndex + 1

\* C26: every step in which the client counts a chunk (bytesReceived and the
\* expected index advance) puts that chunk on the host serial link as one
\* log-line frame.
C26_CountedChunkReachedHost ==
    [][ChunkCounted
          => /\ Len(NewFrames) = 1
             /\ IsLogLine(NewFrames[1])
             /\ Len(NewFrames[1])
                  = 5 + g_state'.bytesReceived - g_state.bytesReceived]_vars

(* ---- C29 -------------------------------------------------------------- *)
\* a ^ b on bytes, bit by bit.
XorByte(a, b) ==
    LET bit(k) == ((a \div (2 ^ k)) + (b \div (2 ^ k))) % 2
    IN  bit(0) + 2 * bit(1) + 4 * bit(2) + 8 * bit(3) + 16 * bit(4)
        + 32 * bit(5) + 64 * bit(6) + 128 * bit(7)

\* f[lo] ^ ... ^ f[hi], folded by halves.
RECURSIVE XorFold(_, _, _)
XorFold(f, lo, hi) ==
    IF lo > hi THEN 0
    ELSE IF lo = hi THEN f[lo]
    ELSE LET mid == (lo + hi) \div 2
         IN  XorByte(XorFold(f, lo, mid), XorFold(f, mid + 1, hi))

WellFramed(f) ==
    /\ Len(f) >= 5
    /\ f[1] = UART_FRAME_START
    /\ f[2] \in 0..255
    /\ Len(f) = 5 + f[3] + 256 * f[4]
    /\ f[Len(f)] = XorFold(f, 2, Len(f) - 1)

\* C29: every frame put on the host serial link is the start byte 0xAA, a
\* type byte, the payload length as two bytes low byte first, that many
\* payload bytes and one checksum byte, the XOR of all bytes between the
\* start byte and the checksum.
C29_FrameLayoutAndChecksum ==
    [][\A k \in 1..Len(NewFrames) : WellFramed(NewFrames[k])]_vars

\* A frame without payload and a frame with the largest payload were sent.
C29_Witness ==
    \E i, j \in 1..Len(uart) :
        /\ Len(uart[i]) = 5
        /\ Len(uart[j]) = 5 + UART_FRAME_MAX_PAYLOAD
        /\ uart[j][3] = UART_FRAME_MAX_PAYLOAD /\ uart[j][4] = 0

(* ---- C30 -------------------------------------------------------------- *)
\* C30: a call of uart_bridge_send() with more than 200 payload bytes
\* returns ESP_ERR_INVALID_SIZE and leaves the serial link as it was.
C30_OversizeRefused ==
    [][\A type \in {UART_MSG_STATUS, UART_MSG_LOG_LINE} :
          \A payload \in BridgePayloads :
             (Len(payload) > UART_FRAME_MAX_PAYLOAD /\ BridgeCall(type, payload))
                => (bridgeRc' = ESP_ERR_INVALID_SIZE /\ uart' = uart)]_vars

\* A 200-byte payload was framed and the 201-byte payload after it refused.
C30_Witness ==
    /\ bridgeRc = ESP_ERR_INVALID_SIZE /\ nHost = 2
    /\ Len(uart) = 1 /\ Len(uart[1]) = 5 + UART_FRAME_MAX_PAYLOAD

(* ---- C27 -------------------------------------------------------------- *)
\* The packets of a transfer of a file of the given size, in sending order.
PacketsOf(x, size) ==
    << [x |-> x, type |-> TYPE_START, off |-> 0] >>
    \o [k \in 1..CeilDiv(size, CHUNK_SIZE) |->
          [x |-> x, type |-> TYPE_DATA, off |-> (k - 1) * CHUNK_SIZE]]
    \o << [x |-> x, type |-> TYPE_END, off |-> 0] >>

\* sendWithAck() returned true for START, for every DATA packet and for END
\* of the running transfer.
AllAcked ==
    [k \in 1..Len(tAcked) |-> tAcked[k].pkt] = PacketsOf(tXfer, tSize)

\* C27: the base's CSV file changes only by being cleared at the end of a
\* transfer in which an ACK was taken for START, for every DATA packet and
\* for END and a COMMIT with status 0 was taken that the host sent for this
\* transfer;
\* every other step, and so every other outcome of a transfer, leaves the
\* file as it was.
C27_ClearedOnlyAfterCommit ==
    [][uftFile' # uftFile
          => /\ uftFile' = <<>>
             /\ pcT = "commit" /\ pcT' = "receive"
             /\ tSize = Len(uftFile)
             /\ AllAcked
             /\ tCommit' # <<>> /\ tCommit'[1].status = 0
             /\ tCommit'[1].re.x = tXfer]_vars

(* ---- C28 -------------------------------------------------------------- *)
\* C28: whenever sendWithAck() returns true for a DATA packet, the ACK it
\* took is the host's answer to that packet.
C28_AckAnswersThePacket ==
    [][(AckTaken /\ tPkt.type = TYPE_DATA)
          => Head(wireRx).re = tPkt]_vars

(* ---- C31 -------------------------------------------------------------- *)
\* "$GPGGA," or "$GNGGA,", then at least twelve tokens in all.
WellFormedGga(nmea) ==
    /\ Len(nmea) >= 7
    /\ SubSeq(nmea, 1, 7) \in {SubSeq(GpLine, 1, 7), SubSeq(GoodLine, 1, 7)}
    /\ Len(Strtok(nmea)) >= MinGgaTokens

\* C31: when the save worker hands storeGgaCsv() a latest line that starts
\* with $GPGGA, or $GNGGA, and has at least twelve tokens, storeGgaCsv() gets
\* to the append (one row is written when the file opens).
C31_EitherLeaderStored ==
    (pcS = "store" /\ WellFormedGga(latestNmea)) => Storable(latestNmea)


(* ---- C32 -------------------------------------------------------------- *)
\* C32: after every disconnect and after every failed connection attempt
\* that the GAP handler has taken, the shears is advertising again.
C32_AdvertisingResumes ==
    \A i \in 1..Len(gapLog) :
        gapLog[i].ev \in {"disconnect", "connect_failed"} => gapLog[i].adv

(* ---- C33 -------------------------------------------------------------- *)
\* C33: every accepted session eventually ends: once g_log_xfer.active is
\* set, the server eventually returns to IDLE (active = false), whatever
\* control writes arrive in between.
C33_SessionEnds == g_log_xfer.active ~> ~g_log_xfer.active

(* ---- C34 -------------------------------------------------------------- *)
\* C34: no session has two terminal statuses (DONE or ABORTED) handed to the
\* stack, whatever the interleaving of the handler and the emitter.
IsTerminal(e) ==
    IsStatus(e, STATUS_TRANSFER_DONE) \/ IsStatus(e, STATUS_TRANSFER_ABORTED)

C34_OneTerminalStatus ==
    \A j \in 1..Len(srvOut) : \A i \in 1..(j - 1) :
        (IsTerminal(srvOut[i]) /\ IsTerminal(srvOut[j]))
            => srvOut[i].sess # srvOut[j].sess

(* ---- C35 -------------------------------------------------------------- *)
\* C35: the emitter task never calls fread() on a file handle that has been
\* closed: the handle it saw in its test and the one in g_log_xfer.fp at the
\* call both name an open file, under every interleaving with the handler.
C35_EmitterReadsOpenFile ==
    [][ERead => \A fp \in ({eFp, g_log_xfer.fp} \ {NULL}) : files[fp].open]_vars

(* ---- C36 -------------------------------------------------------------- *)
\* C36: a transfer-done status frame is written to the host only by a step
\* that finds a reception active; a DONE status taken while no reception is
\* active writes none.
IsTransferDone(f) == f = Frame(UART_MSG_STATUS, << UART_STATUS_TRANSFER_DONE >>)

C36_DoneOnlyForActiveReception ==
    [][(\E k \in 1..Len(NewFrames) : IsTransferDone(NewFrames[k]))
          => g_state.active]_vars

(* ---- C37 -------------------------------------------------------------- *)
\* C37: from the return of shearsLedSetSolidOn() until the next call of
\* shearsLedSetBlinking(true) or shearsLedSetOff() the LED output is at
\* level 1, under every interleaving of the blink task and the caller.
C37_SolidStaysOn == solidOn => ledLevel = 1

(* ---- C38 -------------------------------------------------------------- *)
\* C38: when a transfer ends (the busy lock is released) the trigger queue
\* is empty, so that only a trigger raised afterwards starts a transfer.
C38_QueueEmptyWhenTransferEnds ==
    [][(transferBusy /\ ~transferBusy') => transferQueue' = 0]_vars

(* ---- C39 -------------------------------------------------------------- *)
\* C39: a session never emits more chunks than the 16-bit index has values,
\* so no index is used twice in a session.
C39_IndexNeverReused == wideChunks <= IndexSpace

(* ---- C40 -------------------------------------------------------------- *)
BasenameSize == 48   \* char basename[48]

\* if (filename_len == 0 || filename_len > 48) is false.
PassesLengthCheck(filename_len) ==
    ~(filename_len = 0 \/ filename_len > MaxBasename)

\* memcpy(basename, filename_buf, filename_len) writes the indices below
\* filename_len; basename[filename_len] = '\0' writes this one.
NulIndex(filename_len) == filename_len

\* C40: whenever handle_start_transfer() is past its length check, the bytes
\* it copies into basename and the NUL it stores land at indices 0..47.
C40_BasenameWritesInBounds ==
    (pcH = "s_open" /\ PassesLengthCheck(hReq.len))
        => NulIndex(hReq.len) <= BasenameSize - 1
====
